---- MODULE Spec2Model ----
(***************************************************************************)
(* A model of the agent-orchestration core of libra:                       *)
(*   - the bounded tool-calling loop, Agent::run_with_history              *)
(*     (src/internal/ai/agent/runtime/mod.rs), and its two entry points    *)
(*     Prompt::prompt and Chat::chat;                                      *)
(*   - the agent profile parser, parse_agent_profile                       *)
(*     (src/internal/ai/agent/profile/parser.rs);                          *)
(*   - the agent profile router, AgentProfileRouter::select, and the       *)
(*     three-tier profile loading, load_profiles                           *)
(*     (src/internal/ai/agent/profile/router.rs).                          *)
(*   - the DAG node adapters AgentAction and ToolLoopAction                *)
(*     (src/internal/ai/node_adapter.rs);                                  *)
(*   - the commit anchor utilities (src/internal/ai/util.rs);              *)
(*   - the shortlog command (src/command/shortlog.rs);                     *)
(*   - several invocations of one Agent running concurrently.              *)
(* Each component has its own specification over its own variables; the    *)
(* variables of the other components stay at their idle values.            *)
(* Strings are sequences of characters, Option<T> is a sequence of length  *)
(* 0 (None) or 1 (Some), Vec<T> is a sequence.                             *)
(***************************************************************************)
EXTENDS Integers, Sequences, FiniteSets, TLC

VARIABLES
    max_steps,      \* Agent.max_steps : Option<usize>
    agent_tools,    \* Agent.tools.tools : Vec<Arc<dyn Tool>>
    preamble,       \* Agent.preamble : Option<String>
    temperature,    \* Agent.temperature : Option<f64>
    op,             \* the entry point of the invocation: "none", "prompt", "chat"
    seed,           \* the history run_with_history was called with
    chat_history,   \* run_with_history: mut chat_history
    steps,          \* run_with_history: let mut steps
    pc,             \* position of the invocation in run_with_history
    request,        \* the CompletionRequest of the current round (Option)
    response,       \* response.content of the current round
    tool_calls,     \* the tool calls of the current round not yet executed
    results,        \* run_with_history: let mut results
    outcome,        \* what the invocation returned (Option<Result<String, _>>)
    completions,    \* number of calls of CompletionModel::completion
    executed,       \* the tool calls executed so far, as <<round, ToolCall>>
    backend_log     \* what the backend answered, one entry per completion

VARIABLES
    document,        \* parse_agent_profile: the argument content
    parsed,          \* what parse_agent_profile returned (Option<Option<AgentProfile>>)
    reparsed,        \* what a second call on the same document returned
    router_profiles, \* AgentProfileRouter.profiles
    router_input,    \* select: the argument input
    scores,          \* select: the score computed for each profile, in order
    selected,        \* what select returned (Option<Option<&AgentProfile>>)
    project_dir,     \* the directory {working_dir}/.libra/agents
    user_dir,        \* the directory {config_dir}/libra/agents
    profiles,        \* load_profiles: let mut profiles
    loaded_names,    \* load_profiles: let mut loaded_names
    load_pc          \* position of load_profiles

VARIABLES
    node,            \* one run of a DAG node adapter (Action::run), a record
    anchor,          \* one use of the commit anchor utilities, a record
    shortlog,        \* one run of the shortlog command, a record
    invocations      \* the invocations running concurrently on one Agent

loop_vars == <<max_steps, agent_tools, preamble, temperature, op, seed, chat_history,
               steps, pc, request, response, tool_calls, results, outcome,
               completions, executed, backend_log>>
parser_vars == <<document, parsed, reparsed>>
router_vars == <<router_profiles, router_input, scores, selected>>
loader_vars == <<project_dir, user_dir, profiles, loaded_names, load_pc>>
profile_vars == <<parser_vars, router_vars, loader_vars>>

adapter_vars == <<node>>
util_vars == <<anchor>>
shortlog_vars == <<shortlog>>
concurrent_vars == <<invocations>>
aux_vars == <<adapter_vars, util_vars, shortlog_vars, concurrent_vars>>

vars == <<loop_vars, profile_vars, aux_vars>>

\* the idle values of the variables of a component that is not running
ParserIdle == document = <<>> /\ parsed = <<>> /\ reparsed = <<>>
RouterIdle ==
    router_profiles = <<>> /\ router_input = <<>> /\ scores = <<>> /\ selected = <<>>
LoaderIdle ==
    /\ project_dir = <<>>
    /\ user_dir = <<>>
    /\ profiles = <<>>
    /\ loaded_names = {}
    /\ load_pc = "Off"
ProfileIdle == ParserIdle /\ RouterIdle /\ LoaderIdle
NodeIdle == node = <<>>
AnchorIdle == anchor = <<>>
ShortlogIdle == shortlog = <<>>
InvocationsIdle == invocations = <<>>
AuxIdle == NodeIdle /\ AnchorIdle /\ ShortlogIdle /\ InvocationsIdle
LoopIdle ==
    /\ max_steps = <<>>
    /\ agent_tools = <<>>
    /\ preamble = <<>>
    /\ temperature = <<>>
    /\ op = "none"
    /\ seed = <<>>
    /\ chat_history = <<>>
    /\ steps = 0
    /\ pc = "Off"
    /\ request = <<>>
    /\ response = <<>>
    /\ tool_calls = <<>>
    /\ results = <<>>
    /\ outcome = <<>>
    /\ completions = 0
    /\ executed = <<>>
    /\ backend_log = <<>>

----------------------------------------------------------------------------
(* Bounds of the model *)

\* the largest configured step bound that is explored
MaxBound == 2
\* the largest number of content items in one backend response
MaxContent == 2
\* without a step bound the backend is invoked at most this often
MaxCalls == MaxBound

----------------------------------------------------------------------------
(* Option and strings *)

None == <<>>
Some(x) == <<x>>
IsSome(o) == Len(o) = 1
Unwrap(o) == o[1]

\* the strings used as texts
EmptyStr == <<>>
Str(c) == <<c>>
Newline == <<"\n">>

\* [String]::join(sep)
RECURSIVE Join(_, _)
Join(strs, sep) ==
    IF Len(strs) = 0 THEN EmptyStr
    ELSE IF Len(strs) = 1 THEN strs[1]
    ELSE strs[1] \o sep \o Join(Tail(strs), sep)

----------------------------------------------------------------------------
(* The message protocol *)

\* AssistantContent::Text(Text { text })
Text(t) == [kind |-> "Text", text |-> t]
\* AssistantContent::ToolCall(ToolCall { id, name, function: Function { name, arguments } })
ToolCall(id, n, a) ==
    [kind |-> "ToolCall", id |-> id, name |-> n,
     function |-> [name |-> n, arguments |-> a]]
\* any other AssistantContent variant (a thought, unsupported content)
OtherContent == [kind |-> "Other"]

\* UserContent::ToolResult(ToolResult { id, name, result })
ToolResult(id, n, r) == [kind |-> "ToolResult", id |-> id, name |-> n, result |-> r]

\* Message::User { content } and Message::Assistant { id, content }
UserMessage(content) == [role |-> "User", content |-> content]
AssistantMessage(content) == [role |-> "Assistant", id |-> None, content |-> content]

\* OneOrMany::many: None for an empty Vec
OneOrManyMany(v) == IF Len(v) = 0 THEN None ELSE Some(v)

\* Result<T, E>
Ok(v) == [tag |-> "Ok", value |-> v]
Err(kind, msg, detail) == [tag |-> "Err", kind |-> kind, msg |-> msg, detail |-> detail]

----------------------------------------------------------------------------
(* The environment: tools and backend answers *)

\* a tool of the registry: its name and whether its call succeeds
Tool(n, succeeds) == [name |-> n, succeeds |-> succeeds]
MockTool == Tool("mock_tool", TRUE)
FailingTool == Tool("failing_tool", FALSE)

\* Tool::definition
Definition(t) == [name |-> t.name]

\* Tool::call(args)
Call(t, args) ==
    IF t.succeeds THEN Ok([ok |-> TRUE, tool |-> t.name, args |-> args])
    ELSE Err("Tool", "tool failed", t.name)

\* the registries an agent is built with
Registries == { <<>>, <<MockTool, FailingTool>> }

\* the step bounds an agent is built with
StepBounds == {None} \cup {Some(n) : n \in 0..MaxBound}

\* all sequences over S of length at most n
SeqsUpTo(S, n) == UNION {[1..k -> S] : k \in 0..n}

\* the shapes of the content items a backend answers with; a tool call is
\* given by the name of the tool it asks for
TextShapes == {Text(EmptyStr), Text(Str("a"))}
CallShapes == {[kind |-> "ToolCall", name |-> n] :
                  n \in {"mock_tool", "failing_tool", "missing_tool"}}
FinalShapes == TextShapes \cup {OtherContent}
RoundShapes == {Text(Str("a"))} \cup CallShapes

\* the content of a backend answer: a tool call at position i has id i and
\* arguments i
MkContent(shapes) ==
    [i \in 1..Len(shapes) |->
        IF shapes[i].kind = "ToolCall"
        THEN ToolCall(i, shapes[i].name, i)
        ELSE shapes[i]]

ResponsePool ==
    {MkContent(s) : s \in SeqsUpTo(FinalShapes, MaxContent)
                        \cup SeqsUpTo(RoundShapes, MaxContent)}

\* the error of a failing completion
BackendError == Err("ProviderError", "backend failed", 0)

\* the message a text prompt converts into, and the prior histories of chat
PromptMessage == UserMessage(<<Text(Str("h"))>>)
PriorHistories ==
    { <<UserMessage(<<Text(Str("o"))>>), AssistantMessage(<<Text(Str("r"))>>)>> }

----------------------------------------------------------------------------
(* Agent::run_with_history *)

\* the ToolCall items of a response, in order (the scan of lines 83-88)
ToolCallsOf(content) == SelectSeq(content, LAMBDA c : c.kind = "ToolCall")

\* the filter_map of lines 91-98: the text of every Text item, in order
TextsOf(content) ==
    LET items == SelectSeq(content, LAMBDA c : c.kind = "Text") IN
    [i \in 1..Len(items) |-> items[i].text]

\* text_response of lines 91-99
TextResponse(content) == Join(TextsOf(content), Newline)

\* FinalAnswer returning the joined text whatever the content
FinalAnswerAlwaysOk(content) == Ok(TextResponse(content))

\* FinalAnswer with the emptiness test of the response left out
FinalAnswerNoContentTest(content) ==
    LET text_response == TextResponse(content) IN
    IF Len(text_response) = 0
    THEN Err("ResponseError", "non-text response", 0)
    ELSE Ok(text_response)

\* the result of a round without tool calls (lines 90-109)
FinalAnswer(content) ==
    LET text_response == TextResponse(content) IN
    IF Len(text_response) = 0 /\ Len(content) # 0
    THEN Err("ResponseError", "non-text response", 0)
    ELSE Ok(text_response)

\* NextSteps counting every tool call of the response
NextStepsPerCall(n, calls) == n + Len(calls)

\* line 111: steps += 1, once for a response with tool calls
NextSteps(n, calls) == n + 1

\* ExceedsLimit with the comparison off by one
ExceedsLimitOffByOne(n, limit) == IsSome(limit) /\ n >= Unwrap(limit)

\* ExceedsLimit without the test
ExceedsLimitNever(n, limit) == FALSE

\* the step-bound check of lines 112-114
ExceedsLimit(n, limit) == IsSome(limit) /\ n > Unwrap(limit)

\* AssistantContent keeping the tool calls only
AssistantContentCallsOnly(content) == OneOrManyMany(ToolCallsOf(content))

\* lines 120-127: the content of the Assistant message of a round
AssistantContent(content) == OneOrManyMany(content)

\* PushResult losing the result
PushResultDropped(res, tc, value) == res

\* PushResult putting the new result first
PushResultFront(res, tc, value) ==
    <<ToolResult(tc.id, tc.function.name, value)>> \o res

\* lines 155-159: results.push(UserContent::ToolResult(..))
PushResult(res, tc, value) ==
    Append(res, ToolResult(tc.id, tc.function.name, value))

\* FindTool taking the tool of that name registered last
FindToolLast(tools, n) ==
    IF \E i \in 1..Len(tools) : tools[i].name = n
    THEN CHOOSE i \in 1..Len(tools) :
            /\ tools[i].name = n
            /\ \A j \in (i + 1)..Len(tools) : tools[j].name # n
    ELSE 0

\* FindTool falling back to the first tool of the registry
FindToolOrFirst(tools, n) ==
    IF \E i \in 1..Len(tools) : tools[i].name = n
    THEN CHOOSE i \in 1..Len(tools) :
            /\ tools[i].name = n
            /\ \A j \in 1..(i - 1) : tools[j].name # n
    ELSE IF Len(tools) > 0 THEN 1 ELSE 0

\* the lookup of lines 136-140: the index of the first tool of that name, 0 if none
FindTool(tools, n) ==
    IF \E i \in 1..Len(tools) : tools[i].name = n
    THEN CHOOSE i \in 1..Len(tools) :
            /\ tools[i].name = n
            /\ \A j \in 1..(i - 1) : tools[j].name # n
    ELSE 0

\* BuildRequest sending the seed history in every round
BuildRequestSeedOnly ==
    [preamble |-> preamble,
     chat_history |-> seed,
     temperature |-> temperature,
     tools |-> [i \in 1..Len(agent_tools) |-> Definition(agent_tools[i])]]

\* the CompletionRequest of lines 73-79
BuildRequest ==
    [preamble |-> preamble,
     chat_history |-> chat_history,
     temperature |-> temperature,
     tools |-> [i \in 1..Len(agent_tools) |-> Definition(agent_tools[i])]]

Finish(res) ==
    /\ pc' = "Done"
    /\ outcome' = Some(res)

\* Prompt::prompt: the loop runs on the one new message
Prompt ==
    /\ pc = "Idle"
    /\ op' = "prompt"
    /\ seed' = <<PromptMessage>>
    /\ chat_history' = <<PromptMessage>>
    /\ pc' = "AwaitingCompletion"
    /\ UNCHANGED <<profile_vars, aux_vars, max_steps, agent_tools, preamble, temperature, steps, request,
                   response, tool_calls, results, outcome, completions, executed,
                   backend_log>>

\* Chat putting the new message in front of the caller's history
ChatPrepends(prior) ==
    /\ pc = "Idle"
    /\ op' = "chat"
    /\ seed' = <<PromptMessage>> \o prior
    /\ chat_history' = <<PromptMessage>> \o prior
    /\ pc' = "AwaitingCompletion"
    /\ UNCHANGED <<profile_vars, aux_vars, max_steps, agent_tools, preamble, temperature, steps,
                   request, response, tool_calls, results, outcome, completions,
                   executed, backend_log>>

\* Chat::chat: the new message is pushed onto the caller's history
Chat(prior) ==
    /\ pc = "Idle"
    /\ op' = "chat"
    /\ seed' = Append(prior, PromptMessage)
    /\ chat_history' = Append(prior, PromptMessage)
    /\ pc' = "AwaitingCompletion"
    /\ UNCHANGED <<profile_vars, aux_vars, max_steps, agent_tools, preamble, temperature, steps, request,
                   response, tool_calls, results, outcome, completions, executed,
                   backend_log>>

\* CompletionFails asking the backend again instead of returning
CompletionFailsRetried ==
    /\ pc = "AwaitingCompletion"
    /\ IsSome(max_steps) \/ completions < MaxCalls
    /\ completions < MaxCalls + 1
    /\ request' = Some(BuildRequest)
    /\ completions' = completions + 1
    /\ backend_log' = Append(backend_log, BackendError)
    /\ UNCHANGED <<profile_vars, aux_vars, max_steps, agent_tools, preamble, temperature, op, seed,
                   chat_history, steps, response, tool_calls, results, executed,
                   pc, outcome>>

\* lines 73-81 with a failing completion: the `?` returns the error
CompletionFails ==
    /\ pc = "AwaitingCompletion"
    /\ IsSome(max_steps) \/ completions < MaxCalls
    /\ request' = Some(BuildRequest)
    /\ completions' = completions + 1
    /\ backend_log' = Append(backend_log, BackendError)
    /\ Finish(BackendError)
    /\ UNCHANGED <<profile_vars, aux_vars, max_steps, agent_tools, preamble, temperature, op, seed,
                   chat_history, steps, response, tool_calls, results, executed>>

\* lines 73-132: one completion that answers `content`, and its evaluation up
\* to the first tool execution
Completion(content) ==
    /\ pc = "AwaitingCompletion"
    /\ IsSome(max_steps) \/ completions < MaxCalls
    /\ request' = Some(BuildRequest)
    /\ completions' = completions + 1
    /\ backend_log' = Append(backend_log, Ok(content))
    /\ response' = content
    /\ LET calls == ToolCallsOf(content) IN
       IF Len(calls) = 0
       THEN /\ Finish(FinalAnswer(content))
            /\ UNCHANGED <<steps, chat_history, tool_calls, results>>
       ELSE /\ steps' = NextSteps(steps, calls)
            /\ IF ExceedsLimit(steps', max_steps)
               THEN /\ Finish(Err("ResponseError", "exceeded max steps",
                                  Unwrap(max_steps)))
                    /\ UNCHANGED <<chat_history, tool_calls, results>>
               ELSE LET assistant_content == AssistantContent(content) IN
                    IF ~IsSome(assistant_content)
                    THEN /\ Finish(Err("ResponseError", "empty assistant content", 0))
                         /\ UNCHANGED <<chat_history, tool_calls, results>>
                    ELSE /\ chat_history' =
                               Append(chat_history,
                                      AssistantMessage(Unwrap(assistant_content)))
                         /\ tool_calls' = calls
                         /\ results' = <<>>
                         /\ pc' = "ExecutingTools"
                         /\ UNCHANGED outcome
    /\ UNCHANGED <<profile_vars, aux_vars, max_steps, agent_tools, preamble, temperature, op, seed, executed>>

\* ExecuteTool taking the pending calls from the last to the first
ExecuteToolLastFirst ==
    /\ pc = "ExecutingTools"
    /\ Len(tool_calls) > 0
    /\ LET tc == tool_calls[Len(tool_calls)]
           i == FindTool(agent_tools, tc.function.name)
       IN
       IF i = 0
       THEN /\ Finish(Err("RequestError", "tool not found", tc.function.name))
            /\ UNCHANGED <<tool_calls, results, executed>>
       ELSE LET result == Call(agent_tools[i], tc.function.arguments) IN
            /\ executed' = Append(executed, <<steps, tc>>)
            /\ IF result.tag = "Err"
               THEN /\ Finish(Err("RequestError", "tool call failed", result))
                    /\ UNCHANGED <<tool_calls, results>>
               ELSE /\ results' = PushResult(results, tc, result.value)
                    /\ tool_calls' = SubSeq(tool_calls, 1, Len(tool_calls) - 1)
                    /\ UNCHANGED <<pc, outcome>>
    /\ UNCHANGED <<profile_vars, aux_vars, max_steps, agent_tools, preamble, temperature,
                   op, seed, chat_history, steps, request, response, completions,
                   backend_log>>

\* ExecuteTool recording a failed call as a result and going on
ExecuteToolKeepsGoing ==
    /\ pc = "ExecutingTools"
    /\ Len(tool_calls) > 0
    /\ LET tc == Head(tool_calls)
           i == FindTool(agent_tools, tc.function.name)
       IN
       IF i = 0
       THEN /\ Finish(Err("RequestError", "tool not found", tc.function.name))
            /\ UNCHANGED <<tool_calls, results, executed>>
       ELSE LET result == Call(agent_tools[i], tc.function.arguments) IN
            /\ executed' = Append(executed, <<steps, tc>>)
            /\ results' = PushResult(results, tc, result)
            /\ tool_calls' = Tail(tool_calls)
            /\ UNCHANGED <<pc, outcome>>
    /\ UNCHANGED <<profile_vars, aux_vars, max_steps, agent_tools, preamble, temperature, op, seed,
                   chat_history, steps, request, response, completions, backend_log>>

\* lines 135-160: one iteration of `for tc in tool_calls`
ExecuteTool ==
    /\ pc = "ExecutingTools"
    /\ Len(tool_calls) > 0
    /\ LET tc == Head(tool_calls)
           i == FindTool(agent_tools, tc.function.name)
       IN
       IF i = 0
       THEN /\ Finish(Err("RequestError", "tool not found", tc.function.name))
            /\ UNCHANGED <<tool_calls, results, executed>>
       ELSE LET result == Call(agent_tools[i], tc.function.arguments) IN
            /\ executed' = Append(executed, <<steps, tc>>)
            /\ IF result.tag = "Err"
               THEN /\ Finish(Err("RequestError", "tool call failed", result))
                    /\ UNCHANGED <<tool_calls, results>>
               ELSE /\ results' = PushResult(results, tc, result.value)
                    /\ tool_calls' = Tail(tool_calls)
                    /\ UNCHANGED <<pc, outcome>>
    /\ UNCHANGED <<profile_vars, aux_vars, max_steps, agent_tools, preamble, temperature, op, seed,
                   chat_history, steps, request, response, completions, backend_log>>

\* lines 162-171: the results of the round become one User message
AppendToolResults ==
    /\ pc = "ExecutingTools"
    /\ Len(tool_calls) = 0
    /\ LET tool_result_content == OneOrManyMany(results) IN
       IF ~IsSome(tool_result_content)
       THEN /\ Finish(Err("ResponseError", "empty tool results", 0))
            /\ UNCHANGED chat_history
       ELSE /\ chat_history' =
                  Append(chat_history, UserMessage(Unwrap(tool_result_content)))
            /\ pc' = "AwaitingCompletion"
            /\ UNCHANGED outcome
    /\ UNCHANGED <<profile_vars, aux_vars, max_steps, agent_tools, preamble, temperature, op, seed, steps,
                   request, response, tool_calls, results, completions, executed,
                   backend_log>>

Init ==
    /\ max_steps \in StepBounds
    /\ agent_tools \in Registries
    /\ preamble = None
    /\ temperature = None
    /\ op = "none"
    /\ seed = <<>>
    /\ chat_history = <<>>
    /\ steps = 0
    /\ pc = "Idle"
    /\ request = None
    /\ response = <<>>
    /\ tool_calls = <<>>
    /\ results = <<>>
    /\ outcome = None
    /\ completions = 0
    /\ executed = <<>>
    /\ backend_log = <<>>
    /\ ParserIdle
    /\ RouterIdle
    /\ LoaderIdle
    /\ AuxIdle

Next ==
    \/ Prompt
    \/ \E prior \in PriorHistories : Chat(prior)
    \/ CompletionFails
    \/ \E content \in ResponsePool : Completion(content)
    \/ ExecuteTool
    \/ AppendToolResults

Spec == Init /\ [][Next]_vars

\* agents built with a preamble and a temperature (in tenths), or without
AgentSettings == {<<None, None>>, <<Some(Str("p")), Some(7)>>}

\* invocations of an agent with the largest step bound and both tools
SeededInit ==
    /\ max_steps = Some(MaxBound)
    /\ agent_tools = <<MockTool, FailingTool>>
    /\ \E settings \in AgentSettings :
          /\ preamble = settings[1]
          /\ temperature = settings[2]
    /\ op = "none"
    /\ seed = <<>>
    /\ chat_history = <<>>
    /\ steps = 0
    /\ pc = "Idle"
    /\ request = None
    /\ response = <<>>
    /\ tool_calls = <<>>
    /\ results = <<>>
    /\ outcome = None
    /\ completions = 0
    /\ executed = <<>>
    /\ backend_log = <<>>
    /\ ParserIdle
    /\ RouterIdle
    /\ LoaderIdle
    /\ AuxIdle

SpecSeeded == SeededInit /\ [][Next]_vars

----------------------------------------------------------------------------
(* Observations the properties are stated with *)

\* the invocation has returned, and what it returned
Returned == pc = "Done"
Result == Unwrap(outcome)

Last(s) == s[Len(s)]

\* the tool calls executed in round r, in the order of their execution
RoundExecuted(r) ==
    LET entries == SelectSeq(executed, LAMBDA e : e[1] = r) IN
    [i \in 1..Len(entries) |-> entries[i][2]]

\* the call names a registered tool whose call succeeds
Succeeds(tc) ==
    \E i \in 1..Len(agent_tools) :
        agent_tools[i].name = tc.function.name /\ agent_tools[i].succeeds

\* the call names a registered tool
Registered(tc) ==
    \E i \in 1..Len(agent_tools) : agent_tools[i].name = tc.function.name

\* a backend answer with at least one tool call, all of registered, succeeding tools
GoodToolRound(a) ==
    /\ a.tag = "Ok"
    /\ Len(ToolCallsOf(a.value)) >= 1
    /\ \A i \in 1..Len(ToolCallsOf(a.value)) : Succeeds(ToolCallsOf(a.value)[i])

\* a backend answer with exactly k such tool calls
GoodRound(a, k) == GoodToolRound(a) /\ Len(ToolCallsOf(a.value)) = k

\* the places in chat_history of the two messages of round r
AssistantIndex(r) == Len(seed) + 2 * r - 1
ResultsIndex(r) == Len(seed) + 2 * r

\* s is an initial part of t
IsPrefix(s, t) == Len(s) <= Len(t) /\ s = SubSeq(t, 1, Len(s))

\* the value the registry's tool returns for the call
ReturnedValue(tc) ==
    LET t == CHOOSE t \in {agent_tools[i] : i \in 1..Len(agent_tools)} :
                 t.name = tc.function.name
    IN  Call(t, tc.function.arguments).value

\* the first tool call of the sequence that does not succeed (unregistered
\* or failing), 0 if all succeed
FirstUnusable(calls) ==
    IF \E j \in 1..Len(calls) : ~Succeeds(calls[j])
    THEN CHOOSE j \in 1..Len(calls) :
            /\ ~Succeeds(calls[j])
            /\ \A i \in 1..(j - 1) : Succeeds(calls[i])
    ELSE 0

\* the last answer of the backend opened a tool round within the step bound,
\* and `response` is its content
InToolRound ==
    /\ completions >= 1
    /\ Last(backend_log) = Ok(response)
    /\ Len(ToolCallsOf(response)) >= 1
    /\ IsSome(max_steps) => steps <= Unwrap(max_steps)

\* the number of backend answers that held a tool call
ToolRounds ==
    Cardinality({i \in 1..Len(backend_log) :
                    /\ backend_log[i].tag = "Ok"
                    /\ Len(ToolCallsOf(backend_log[i].value)) >= 1})

\* every answer of the backend so far had exactly k such tool calls
AlwaysCalls(k) == \A i \in 1..Len(backend_log) : GoodRound(backend_log[i], k)

StepBoundError(n) == Err("ResponseError", "exceeded max steps", n)

\* every item of the content is a Text item
TextOnly(content) == \A i \in 1..Len(content) : content[i].kind = "Text"

----------------------------------------------------------------------------
(* C1..C10: the tool-calling loop *)

\* C1: with step bound N and a backend that answers every request with exactly
\* one call of a registered, succeeding tool, the invocation never executes
\* more than N tools nor invokes the backend more than N+1 times; it returns
\* with the (N+1)-th answer, and what it returns is the step-bound error after
\* exactly N executions and N+1 invocations; round N+1 has appended no message
\* to the history and executed none of its tools.
C1_StepBoundExact ==
    (IsSome(max_steps) /\ AlwaysCalls(1)) =>
        LET N == Unwrap(max_steps) IN
        /\ completions <= N + 1
        /\ Len(executed) <= N
        /\ (completions = N + 1) => Returned
        /\ Returned =>
              /\ Result = StepBoundError(N)
              /\ completions = N + 1
              /\ Len(executed) = N
              /\ Len(chat_history) = Len(seed) + 2 * N
              /\ \A i \in 1..Len(executed) : executed[i][1] <= N
              /\ Last(chat_history).role = "User"

C1_Witness ==
    /\ op = "prompt"
    /\ max_steps = Some(2)
    /\ AlwaysCalls(1)
    /\ Returned
    /\ completions = 3
    /\ Len(executed) = 2

\* C2: when the first response of prompt holds no ToolCall item (here: only
\* Text items), prompt returns Ok with the Text items joined by a newline,
\* after one backend invocation and no tool execution.
C2_PromptReturnsJoinedText ==
    (/\ op = "prompt"
     /\ completions >= 1
     /\ backend_log[1].tag = "Ok"
     /\ Len(ToolCallsOf(backend_log[1].value)) = 0
     /\ TextOnly(backend_log[1].value)) =>
        /\ Returned
        /\ completions = 1
        /\ executed = <<>>
        /\ Result = Ok(Join(TextsOf(backend_log[1].value), Newline))

C4_ToolResultsMatchCalls ==
    /\ \A p \in (Len(seed) + 1)..Len(chat_history) :
          chat_history[p].role = "User" =>
            /\ p - 1 > Len(seed)
            /\ chat_history[p - 1].role = "Assistant"
            /\ LET calls == ToolCallsOf(chat_history[p - 1].content)
                   content == chat_history[p].content
               IN
               /\ Len(calls) >= 1
               /\ Len(content) = Len(calls)
               /\ \A i \in 1..Len(calls) :
                     content[i] = ToolResult(calls[i].id, calls[i].function.name,
                                             ReturnedValue(calls[i]))
    /\ (pc = "AwaitingCompletion" /\ steps >= 1) =>
          /\ Len(chat_history) = ResultsIndex(steps)
          /\ chat_history[ResultsIndex(steps)].role = "User"
          /\ chat_history[AssistantIndex(steps)] = AssistantMessage(response)
          /\ Len(chat_history[ResultsIndex(steps)].content)
                = Len(ToolCallsOf(response))

C4_Witness ==
    /\ pc = "AwaitingCompletion"
    /\ steps = 1
    /\ Len(ToolCallsOf(response)) = 2
    /\ Len(Last(chat_history).content) = 2
    /\ Last(chat_history).content[2].kind = "ToolResult"
    /\ Last(chat_history).content[2].id = ToolCallsOf(response)[2].id

\* C5: when the backend answers rounds 1..r (r >= 1, r within the step bound)
\* with calls of registered, succeeding tools and round r+1 with Text items
\* only, prompt returns Ok with the text of the answer of round r+1.
C5_ReturnsTextOfLastRound ==
    (/\ op = "prompt"
     /\ completions >= 2
     /\ \A i \in 1..(completions - 1) : GoodToolRound(backend_log[i])
     /\ IsSome(max_steps) => completions - 1 <= Unwrap(max_steps)
     /\ Last(backend_log).tag = "Ok"
     /\ Len(Last(backend_log).value) >= 1
     /\ TextOnly(Last(backend_log).value)) =>
        /\ Returned
        /\ Result = Ok(Join(TextsOf(Last(backend_log).value), Newline))

\* C6: an error of the completion capability is the last thing the backend is
\* asked: the invocation has returned exactly that error, and the failing
\* round has executed no tool and appended nothing to the history.
C6_BackendErrorReturned ==
    \A i \in 1..Len(backend_log) :
        backend_log[i].tag = "Err" =>
            /\ i = Len(backend_log)
            /\ i = completions
            /\ Returned
            /\ Result = backend_log[i]
            /\ steps = i - 1
            /\ \A e \in 1..Len(executed) : executed[e][1] <= i - 1
            /\ chat_history = Unwrap(request).chat_history

C6_Witness ==
    /\ Returned
    /\ completions = 2
    /\ Last(backend_log) = BackendError
    /\ Result = BackendError
    /\ Len(executed) >= 1

\* C7: in a tool round within the step bound whose calls 1..j-1 succeed and
\* whose j-th call names a tool that is not registered, no call from the j-th
\* on is ever executed, no message follows the Assistant message of the round,
\* the backend is not asked again, and the invocation returns the
\* tool-not-found error with that name after executing exactly calls 1..j-1.
C7_UnknownToolFails ==
    LET calls == ToolCallsOf(response)
        j == FirstUnusable(calls)
    IN
    (InToolRound /\ j # 0 /\ ~Registered(calls[j])) =>
        /\ pc \in {"ExecutingTools", "Done"}
        /\ IsPrefix(RoundExecuted(steps), SubSeq(calls, 1, j - 1))
        /\ Len(chat_history) = AssistantIndex(steps)
        /\ Last(chat_history) = AssistantMessage(response)
        /\ Returned =>
              /\ Result = Err("RequestError", "tool not found", calls[j].function.name)
              /\ RoundExecuted(steps) = SubSeq(calls, 1, j - 1)

C7_Witness ==
    /\ InToolRound
    /\ Len(ToolCallsOf(response)) = 2
    /\ FirstUnusable(ToolCallsOf(response)) = 2
    /\ ~Registered(ToolCallsOf(response)[2])
    /\ Returned
    /\ Len(RoundExecuted(steps)) = 1

\* C8: in a tool round within the step bound whose calls 1..j-1 succeed and
\* whose j-th call is of a registered tool that returns an error, no call
\* after the j-th is ever executed, no message follows the Assistant message of
\* the round, the backend is not asked again, and the invocation returns the
\* error of that call.
C8_ToolErrorFails ==
    LET calls == ToolCallsOf(response)
        j == FirstUnusable(calls)
    IN
    (InToolRound /\ j # 0 /\ Registered(calls[j])) =>
        /\ pc \in {"ExecutingTools", "Done"}
        /\ IsPrefix(RoundExecuted(steps), SubSeq(calls, 1, j))
        /\ Len(chat_history) = AssistantIndex(steps)
        /\ Last(chat_history) = AssistantMessage(response)
        /\ Returned =>
              /\ Result.tag = "Err"
              /\ Result.kind = "RequestError"
              /\ Result.msg = "tool call failed"
              /\ Result.detail.tag = "Err"
              /\ RoundExecuted(steps) = SubSeq(calls, 1, j)

C8_Witness ==
    /\ InToolRound
    /\ Len(ToolCallsOf(response)) = 2
    /\ FirstUnusable(ToolCallsOf(response)) = 1
    /\ Registered(ToolCallsOf(response)[1])
    /\ Returned
    /\ Len(RoundExecuted(steps)) = 1

\* C9: for every answer with tool calls in a round within the step bound, the
\* history holds, at the place of that round, an Assistant message whose
\* content is the answer's content item for item; it is there while no tool
\* of the round has been executed yet, and the request of the next round
\* carries it.
C9_AssistantMessageIsResponse ==
    /\ \A r \in 1..Len(backend_log) :
          (/\ backend_log[r].tag = "Ok"
           /\ Len(ToolCallsOf(backend_log[r].value)) >= 1
           /\ IsSome(max_steps) => r <= Unwrap(max_steps)) =>
             /\ Len(chat_history) >= AssistantIndex(r)
             /\ chat_history[AssistantIndex(r)] = AssistantMessage(backend_log[r].value)
             /\ r < completions =>
                   /\ Len(Unwrap(request).chat_history) >= AssistantIndex(r)
                   /\ Unwrap(request).chat_history[AssistantIndex(r)]
                         = AssistantMessage(backend_log[r].value)
    /\ \A e \in 1..Len(executed) :
          /\ executed[e][1] \in 1..Len(backend_log)
          /\ Len(chat_history) >= AssistantIndex(executed[e][1])

C9_Witness ==
    /\ pc = "ExecutingTools"
    /\ completions = 2
    /\ RoundExecuted(steps) = <<>>
    /\ Len(response) = 2
    /\ response[1].kind = "Text"
    /\ Last(chat_history) = AssistantMessage(response)
    /\ Unwrap(request).chat_history[AssistantIndex(1)]
          = AssistantMessage(backend_log[1].value)

\* C10: the step counter equals the number of answers that held a tool call,
\* however many calls each held; with step bound N and a backend whose every
\* answer holds exactly k calls of registered, succeeding tools, at most N*k
\* tools are executed and the backend is asked at most N+1 times, and the
\* invocation returns the step-bound error after exactly N*k executions and
\* N+1 invocations.
C10_StepsCountRounds ==
    /\ steps = ToolRounds
    /\ \A k \in 1..MaxContent :
          (IsSome(max_steps) /\ AlwaysCalls(k)) =>
              LET N == Unwrap(max_steps) IN
              /\ completions <= N + 1
              /\ Len(executed) <= N * k
              /\ Returned =>
                    /\ Result = StepBoundError(N)
                    /\ completions = N + 1
                    /\ Len(executed) = N * k

C10_Witness ==
    /\ max_steps = Some(2)
    /\ AlwaysCalls(2)
    /\ Returned
    /\ completions = 3
    /\ Len(executed) = 4
    /\ steps = 3

\* C11: prompt runs the loop on exactly the one new message, chat on the
\* caller's history followed by the new message as its last element; the
\* first request carries exactly that seed history and every later request
\* starts with it; no step of the invocation changes the agent's fields or
\* the seed.
C11_SeedInvariant ==
    /\ op = "prompt" => seed = <<PromptMessage>>
    /\ op = "chat" =>
          \E prior \in PriorHistories :
              /\ seed = Append(prior, PromptMessage)
              /\ SubSeq(seed, 1, Len(seed) - 1) = prior
    /\ pc \notin {"Idle", "Off"} => IsPrefix(seed, chat_history)
    /\ completions = 1 => Unwrap(request).chat_history = seed
    /\ completions >= 1 => IsPrefix(seed, Unwrap(request).chat_history)

C11_SeedHistory ==
    /\ []C11_SeedInvariant
    /\ [][/\ <<max_steps, agent_tools, preamble, temperature>>'
               = <<max_steps, agent_tools, preamble, temperature>>
           /\ pc # "Idle" => seed' = seed]_vars

C11_Witness ==
    /\ op = "chat"
    /\ Returned
    /\ completions = 2
    /\ Len(seed) = 3
    /\ Last(seed) = PromptMessage
    /\ Len(Unwrap(request).chat_history) = 5

\* C12: a response with at least one content item, none of them a ToolCall
\* or a Text item, ends the invocation with the non-text-response error.
C12_NonTextResponseIsFatal ==
    (/\ completions >= 1
     /\ Last(backend_log).tag = "Ok"
     /\ Len(Last(backend_log).value) >= 1
     /\ \A i \in 1..Len(Last(backend_log).value) :
           Last(backend_log).value[i].kind \notin {"Text", "ToolCall"}) =>
        /\ Returned
        /\ Result = Err("ResponseError", "non-text response", 0)

C12_Witness ==
    /\ Returned
    /\ steps = 1
    /\ Last(backend_log) = Ok(<<OtherContent, OtherContent>>)
    /\ Result.tag = "Err"

----------------------------------------------------------------------------
(* Strings: str is a sequence of characters, a character a one-letter      *)
(* string; "U+00E9" stands for the letter e with acute accent, which takes *)
(* two bytes in UTF-8.                                                     *)

LowerCaseLetters == <<"a", "b", "c", "d", "e", "f", "g", "h", "i", "j", "k", "l", "m", "n", "o", "p", "q", "r", "s", "t", "u", "v", "w", "x", "y", "z">>
UpperCaseLetters == <<"A", "B", "C", "D", "E", "F", "G", "H", "I", "J", "K", "L", "M", "N", "O", "P", "Q", "R", "S", "T", "U", "V", "W", "X", "Y", "Z">>
Digits == {"0", "1", "2", "3", "4", "5", "6", "7", "8", "9"}
NonAsciiLetters == {"U+00E9"}
Whitespace == {" ", "\n", "\t", "\r"}

\* the elements of a sequence
Range(s) == {s[i] : i \in 1..Len(s)}

\* char::is_alphanumeric
IsAlphanumeric(c) ==
    c \in Range(LowerCaseLetters) \cup Range(UpperCaseLetters) \cup Digits
            \cup NonAsciiLetters

\* char::to_lowercase
ToLowerChar(c) ==
    IF c \in Range(UpperCaseLetters)
    THEN LowerCaseLetters[CHOOSE i \in 1..Len(UpperCaseLetters) : UpperCaseLetters[i] = c]
    ELSE c

\* str::to_lowercase
ToLowercase(s) == [i \in 1..Len(s) |-> ToLowerChar(s[i])]

\* the number of bytes of a character in UTF-8
Utf8Len(c) == IF c \in NonAsciiLetters THEN 2 ELSE 1

\* str::len: the length in bytes
RECURSIVE ByteLen(_)
ByteLen(s) == IF Len(s) = 0 THEN 0 ELSE Utf8Len(Head(s)) + ByteLen(Tail(s))

\* str::contains(sub)
Contains(s, sub) ==
    \E i \in 1..(Len(s) - Len(sub) + 1) : SubSeq(s, i, i + Len(sub) - 1) = sub

\* str::starts_with(prefix)
StartsWith(s, prefix) ==
    Len(prefix) <= Len(s) /\ SubSeq(s, 1, Len(prefix)) = prefix

\* str::find(sub): the index (from 0) of the first occurrence, None if none
Find(s, sub) ==
    IF Contains(s, sub)
    THEN Some((CHOOSE i \in 1..(Len(s) - Len(sub) + 1) :
                  /\ SubSeq(s, i, i + Len(sub) - 1) = sub
                  /\ \A j \in 1..(i - 1) : SubSeq(s, j, j + Len(sub) - 1) # sub) - 1)
    ELSE None

\* str::trim_start, str::trim_end, str::trim
RECURSIVE TrimStart(_)
TrimStart(s) ==
    IF Len(s) > 0 /\ Head(s) \in Whitespace THEN TrimStart(Tail(s)) ELSE s
RECURSIVE TrimEnd(_)
TrimEnd(s) ==
    IF Len(s) > 0 /\ s[Len(s)] \in Whitespace
    THEN TrimEnd(SubSeq(s, 1, Len(s) - 1))
    ELSE s
Trim(s) == TrimEnd(TrimStart(s))

\* str::split(c): the pieces between the characters of seps, empty ones included
RECURSIVE Split(_, _)
Split(s, seps) ==
    IF \E i \in 1..Len(s) : s[i] \in seps
    THEN LET i == CHOOSE i \in 1..Len(s) :
                     s[i] \in seps /\ \A j \in 1..(i - 1) : s[j] \notin seps
         IN  <<SubSeq(s, 1, i - 1)>> \o Split(SubSeq(s, i + 1, Len(s)), seps)
    ELSE <<s>>

\* the concatenation of a sequence of strings
RECURSIVE Concat(_)
Concat(strs) == IF Len(strs) = 0 THEN <<>> ELSE Head(strs) \o Concat(Tail(strs))

----------------------------------------------------------------------------
(* AgentProfile and AgentProfileRouter *)

\* struct AgentProfile
AgentProfile(n, d, t, m, p) ==
    [name |-> n, description |-> d, tools |-> t, model_preference |-> m,
     system_prompt |-> p]

\* const MIN_MATCH_SCORE
MIN_MATCH_SCORE == 2

\* the stop words of extract_keywords
StopWords ==
    {
      <<"a">>, <<"a", "n">>, <<"t", "h", "e">>, <<"i", "s">>,
      <<"a", "r", "e">>, <<"w", "a", "s">>, <<"w", "e", "r", "e">>,
      <<"b", "e">>, <<"b", "e", "e", "n">>, <<"b", "e", "i", "n", "g">>,
      <<"h", "a", "v", "e">>, <<"h", "a", "s">>, <<"h", "a", "d">>,
      <<"d", "o">>, <<"d", "o", "e", "s">>, <<"d", "i", "d">>,
      <<"w", "i", "l", "l">>, <<"w", "o", "u", "l", "d">>,
      <<"c", "o", "u", "l", "d">>, <<"s", "h", "o", "u", "l", "d">>,
      <<"m", "a", "y">>, <<"m", "i", "g", "h", "t">>,
      <<"s", "h", "a", "l", "l">>, <<"c", "a", "n">>, <<"f", "o", "r">>,
      <<"a", "n", "d">>, <<"b", "u", "t">>, <<"o", "r">>, <<"n", "o", "r">>,
      <<"n", "o", "t">>, <<"s", "o">>, <<"y", "e", "t">>, <<"t", "o">>,
      <<"o", "f">>, <<"i", "n">>, <<"o", "n">>, <<"a", "t">>, <<"b", "y">>,
      <<"w", "i", "t", "h">>, <<"f", "r", "o", "m">>, <<"u", "p">>,
      <<"a", "b", "o", "u", "t">>, <<"i", "n", "t", "o">>,
      <<"t", "h", "r", "o", "u", "g", "h">>,
      <<"d", "u", "r", "i", "n", "g">>, <<"b", "e", "f", "o", "r", "e">>,
      <<"a", "f", "t", "e", "r">>, <<"a", "b", "o", "v", "e">>,
      <<"b", "e", "l", "o", "w">>, <<"b", "e", "t", "w", "e", "e", "n">>,
      <<"u", "s", "e">>, <<"t", "h", "a", "t">>, <<"t", "h", "i", "s">>,
      <<"i", "t">>, <<"i", "t", "s">>
    }

\* the characters of the model's texts
Punctuation == {",", "?", "-", ":", "[", "]", "'", "\"", "_", "."}
Chars ==
    Range(LowerCaseLetters) \cup Range(UpperCaseLetters) \cup Digits
        \cup NonAsciiLetters \cup Whitespace \cup Punctuation

\* extract_keywords, line 75: the characters c with !c.is_alphanumeric()
Separators == {c \in Chars : ~IsAlphanumeric(c)}

\* AgentProfileRouter::extract_keywords
ExtractKeywords(description) ==
    SelectSeq(Split(ToLowercase(description), Separators),
              LAMBDA w : ByteLen(w) > 2 /\ w \notin StopWords)

\* AgentProfileRouter::match_score
MatchScore(input_lower, profile) ==
    Len(SelectSeq(ExtractKeywords(profile.description),
                  LAMBDA kw : Contains(input_lower, kw)))

\* Eligible with a strict comparison
EligibleStrict(score) == score > MIN_MATCH_SCORE

\* select, line 32: score >= MIN_MATCH_SCORE
Eligible(score) == score >= MIN_MATCH_SCORE

\* Better letting a later profile of the same score win
BetterOrEqual(score, best) == ~IsSome(best) \/ score >= Unwrap(best)[2]

\* select, lines 33-35: best.as_ref().is_none_or(|(_, best_score)| score > *best_score)
Better(score, best) == ~IsSome(best) \/ score > Unwrap(best)[2]

\* select, lines 28-39: the loop over the profiles from the i-th on
RECURSIVE SelectLoop(_, _, _, _)
SelectLoop(profs, input_lower, i, best) ==
    IF i > Len(profs) THEN best
    ELSE LET score == MatchScore(input_lower, profs[i]) IN
         IF Eligible(score) /\ Better(score, best)
         THEN SelectLoop(profs, input_lower, i + 1, Some(<<profs[i], score>>))
         ELSE SelectLoop(profs, input_lower, i + 1, best)

\* AgentProfileRouter::select
SelectProfile(profs, input) ==
    LET best == SelectLoop(profs, ToLowercase(input), 1, None) IN
    IF IsSome(best) THEN Some(Unwrap(best)[1]) ELSE None

(* The profiles and the inputs of the router *)

\* a router holds at most this many profiles
MaxProfiles == 2

AgentName(i) == <<"a", "g", "e", "n", "t", "_", <<"1", "2", "3", "4", "5", "6">>[i]>>

DescriptionPool ==
    { <<"f", "i", "x", " ", "b", "u", "g">>,
      <<"f", "i", "x", " ", "f", "i", "x">>,
      <<"F", "i", "x", " ", "t", "h", "e", " ", "b", "u", "g", ",", " ", "o", "k", "?">>,
      <<"f", "i", "x", " ", "b", "u", "g", " ", "r", "u", "n">>,
      <<>> }

InputPool ==
    { <<"f", "i", "x">>,
      <<"F", "I", "X", " ", "b", "u", "g">>,
      <<"f", "i", "x", " ", "b", "u", "g", " ", "r", "u", "n">>,
      <<"p", "r", "e", "f", "i", "x", " ", "b", "u", "g", "s">>,
      <<"h", "e", "l", "l", "o">> }

\* the collections given to AgentProfileRouter::new
ProfileLists ==
    { [i \in 1..Len(ds) |->
          AgentProfile(AgentName(i), ds[i], <<>>, <<"d", "e", "f", "a", "u", "l", "t">>, <<>>)]
      : ds \in SeqsUpTo(DescriptionPool, MaxProfiles) }

(* Descriptions and inputs with short words and with letters outside ASCII *)

KeywordDescriptions ==
    { <<"U+00E9", "a", " ", "f", "i", "x">>,
      <<"F", "i", "x", " ", "t", "h", "e", " ", "b", "u", "g", ",", " ", "o", "k", "?">>,
      <<"a", "b", " ", "f", "i", "x", " ", "b", "u", "g">>,
      <<"f", "i", "x", "_", "b", "u", "g", "-", "r", "u", "n">> }

KeywordInputs ==
    { <<"U+00E9", "a", " ", "f", "i", "x">>,
      <<"F", "I", "X", " ", "B", "U", "G">>,
      <<"f", "i", "x", " ", "t", "h", "e", " ", "a", "b">>,
      <<"R", "u", "n", ",", " ", "f", "i", "x">>,
      <<"o", "k">> }

KeywordProfileLists ==
    { [i \in 1..Len(ds) |->
          AgentProfile(AgentName(i), ds[i], <<>>, <<"d", "e", "f", "a", "u", "l", "t">>, <<>>)]
      : ds \in SeqsUpTo(KeywordDescriptions, MaxProfiles) }

\* AgentProfileRouter::select applied to the input
Select ==
    /\ ~IsSome(selected)
    /\ router_input \in InputPool \cup KeywordInputs
    /\ selected' = Some(SelectProfile(router_profiles, router_input))
    /\ scores' = [i \in 1..Len(router_profiles) |->
                     MatchScore(ToLowercase(router_input), router_profiles[i])]
    /\ UNCHANGED <<loop_vars, aux_vars, parser_vars, loader_vars, router_profiles, router_input>>

\* AgentProfileRouter::new(profiles), and the input select is called with
RouterInit ==
    /\ router_profiles \in ProfileLists
    /\ router_input \in InputPool
    /\ scores = <<>>
    /\ selected = None
    /\ LoopIdle
    /\ ParserIdle
    /\ LoaderIdle
    /\ AuxIdle

RouterNext == Select

SpecRouter == RouterInit /\ [][RouterNext]_vars

\* the router given the descriptions and inputs with short words
KeywordsInit ==
    /\ router_profiles \in KeywordProfileLists
    /\ router_input \in KeywordInputs
    /\ scores = <<>>
    /\ selected = None
    /\ LoopIdle
    /\ ParserIdle
    /\ LoaderIdle
    /\ AuxIdle

SpecKeywords == KeywordsInit /\ [][RouterNext]_vars

(* Observations of the router *)

\* the number of distinct keywords of the description found in the lower-cased input
DistinctScore(input, profile) ==
    Cardinality({kw \in Range(ExtractKeywords(profile.description)) :
                    Contains(ToLowercase(input), kw)})

\* select has returned, and what
Selected == IsSome(selected)
Selection == Unwrap(selected)

\* the place of the selected profile in the collection
SelectedIndex ==
    CHOOSE i \in 1..Len(router_profiles) : router_profiles[i] = Unwrap(Selection)

\* the largest score of the collection
BestScore == CHOOSE m \in Range(scores) : \A i \in 1..Len(scores) : scores[i] <= m

----------------------------------------------------------------------------
(* C13..C15: the profile router *)

\* C13: the score select computes for a profile is the number of distinct
\* keywords of its description that occur in the lower-cased input, so that
\* the selected profile has at least two distinct keywords in the input.
C13_ScoreCountsDistinctKeywords ==
    Selected =>
        /\ \A i \in 1..Len(router_profiles) :
              scores[i] = DistinctScore(router_input, router_profiles[i])
        /\ IsSome(Selection) =>
              DistinctScore(router_input, Unwrap(Selection)) >= 2

\* C14: select returns a profile only if the score of that profile is at least
\* 2; when every profile scores below 2 (the empty collection included) it
\* returns None; when some profile scores exactly 2 and none scores more, a
\* profile of score 2 is returned.
C14_ThresholdTwo ==
    Selected =>
        /\ IsSome(Selection) =>
              /\ \E i \in 1..Len(router_profiles) : router_profiles[i] = Unwrap(Selection)
              /\ scores[SelectedIndex] >= 2
        /\ (\A i \in 1..Len(scores) : scores[i] < 2) => Selection = None
        /\ (/\ \E i \in 1..Len(scores) : scores[i] = 2
            /\ \A i \in 1..Len(scores) : scores[i] <= 2) =>
              /\ IsSome(Selection)
              /\ scores[SelectedIndex] = 2

C14_Witness ==
    /\ Selected
    /\ Len(router_profiles) = 2
    /\ scores = <<0, 2>>
    /\ IsSome(Selection)
    /\ SelectedIndex = 2

\* C15: when some profile is eligible select returns a profile of the largest
\* score, and among the profiles of that score the one that comes first in
\* the collection the router was built with.
C15_MaxScoreFirstWins ==
    Selected =>
        /\ (\E i \in 1..Len(scores) : scores[i] >= MIN_MATCH_SCORE) => IsSome(Selection)
        /\ IsSome(Selection) =>
              /\ scores[SelectedIndex] = BestScore
              /\ \A j \in 1..(SelectedIndex - 1) : scores[j] < BestScore
              /\ Unwrap(Selection).name = AgentName(SelectedIndex)

C15_Witness ==
    /\ Selected
    /\ Len(router_profiles) = 2
    /\ scores[1] = scores[2]
    /\ scores[1] >= 2
    /\ router_profiles[1].description # router_profiles[2].description
    /\ IsSome(Selection)
    /\ Unwrap(Selection).name = AgentName(1)

----------------------------------------------------------------------------
(* parse_agent_profile *)

Fence == <<"-", "-", "-">>

\* str::strip_prefix
StripPrefix(s, prefix) ==
    IF StartsWith(s, prefix) THEN Some(SubSeq(s, Len(prefix) + 1, Len(s))) ELSE None

\* str::strip_suffix
StripSuffix(s, suffix) ==
    IF Len(suffix) <= Len(s) /\ SubSeq(s, Len(s) - Len(suffix) + 1, Len(s)) = suffix
    THEN Some(SubSeq(s, 1, Len(s) - Len(suffix)))
    ELSE None

\* Option::unwrap_or
UnwrapOr(o, default) == IF IsSome(o) THEN Unwrap(o) ELSE default

\* str::lines: the pieces between line feeds, without the empty piece after a
\* final line feed, each without its final carriage return
Lines(s) ==
    LET pieces == Split(s, {"\n"})
        kept == IF pieces[Len(pieces)] = <<>>
                THEN SubSeq(pieces, 1, Len(pieces) - 1)
                ELSE pieces
    IN  [i \in 1..Len(kept) |-> UnwrapOr(StripSuffix(kept[i], <<"\r">>), kept[i])]

\* str::trim_matches(c)
RECURSIVE TrimMatches(_, _)
TrimMatches(s, c) ==
    IF Len(s) > 0 /\ Head(s) = c THEN TrimMatches(Tail(s), c)
    ELSE IF Len(s) > 0 /\ s[Len(s)] = c THEN TrimMatches(SubSeq(s, 1, Len(s) - 1), c)
    ELSE s

\* ParseStringList taking double quotes only from the entries
ParseStringListDoubleQuotesOnly(s0) ==
    LET s1 == Trim(s0)
        s2 == UnwrapOr(StripPrefix(s1, <<"[">>), s1)
        s3 == UnwrapOr(StripSuffix(s2, <<"]">>), s2)
        items == Split(s3, {","})
    IN  SelectSeq([i \in 1..Len(items) |-> TrimMatches(Trim(items[i]), "\"")],
                  LAMBDA item : Len(item) > 0)

\* parse_string_list
ParseStringList(s0) ==
    LET s1 == Trim(s0)
        s2 == UnwrapOr(StripPrefix(s1, <<"[">>), s1)
        s3 == UnwrapOr(StripSuffix(s2, <<"]">>), s2)
        items == Split(s3, {","})
    IN  SelectSeq([i \in 1..Len(items) |->
                      TrimMatches(TrimMatches(Trim(items[i]), "\""), "'")],
                  LAMBDA item : Len(item) > 0)

\* NoFields with an empty model preference
NoFieldsEmptyModel ==
    [name |-> None, description |-> None, tools |-> <<>>, model_preference |-> <<>>]

\* parse_agent_profile, lines 48-51: the fields before the first line is read
NoFields ==
    [name |-> None, description |-> None, tools |-> <<>>,
     model_preference |-> <<"d", "e", "f", "a", "u", "l", "t">>]

\* parse_agent_profile, lines 53-64: the loop over the lines of the frontmatter
RECURSIVE ParseLines(_, _)
ParseLines(lines, fields) ==
    IF Len(lines) = 0 THEN fields
    ELSE LET line == Trim(Head(lines))
             n == StripPrefix(line, <<"n", "a", "m", "e", ":">>)
             d == StripPrefix(line, <<"d", "e", "s", "c", "r", "i", "p", "t", "i", "o", "n", ":">>)
             m == StripPrefix(line, <<"m", "o", "d", "e", "l", ":">>)
             t == StripPrefix(line, <<"t", "o", "o", "l", "s", ":">>)
             next == IF IsSome(n) THEN [fields EXCEPT !.name = Some(Trim(Unwrap(n)))]
                     ELSE IF IsSome(d)
                          THEN [fields EXCEPT !.description = Some(Trim(Unwrap(d)))]
                     ELSE IF IsSome(m)
                          THEN [fields EXCEPT !.model_preference = Trim(Unwrap(m))]
                     ELSE IF IsSome(t)
                          THEN [fields EXCEPT !.tools = ParseStringList(Trim(Unwrap(t)))]
                     ELSE fields
         IN  ParseLines(Tail(lines), next)

\* parse_agent_profile, lines 66-72: the profile of the fields, None without a name
ProfileOf(fields, body) ==
    IF IsSome(fields.name)
    THEN Some(AgentProfile(Unwrap(fields.name), UnwrapOr(fields.description, <<>>),
                           fields.tools, fields.model_preference, body))
    ELSE None

\* parse_agent_profile, line 44: after_first_fence.find("---")
EndFence(after_first_fence) == Find(after_first_fence, Fence)

\* parse_agent_profile
ParseAgentProfile(text) ==
    LET content == Trim(text) IN
    IF ~StartsWith(content, Fence) THEN None
    ELSE LET after_first_fence == SubSeq(content, 4, Len(content))
             end_fence == EndFence(after_first_fence)
         IN  IF ~IsSome(end_fence) THEN None
             ELSE LET frontmatter == Trim(SubSeq(after_first_fence, 1, Unwrap(end_fence)))
                      body == Trim(SubSeq(after_first_fence, Unwrap(end_fence) + 4,
                                          Len(after_first_fence)))
                  IN  ProfileOf(ParseLines(Lines(frontmatter), NoFields), body)

(* The documents given to the parser *)

\* a document has at most this many lines
MaxLines == 4

LinePool ==
    { Fence,
      <<"n", "a", "m", "e", ":", " ", "x">>,
      <<"n", "a", "m", "e", ":", " ", "p", "-", "-", "-", "q">>,
      <<"d", "e", "s", "c", "r", "i", "p", "t", "i", "o", "n", ":", " ", "a", "-", "-", "-", "b">>,
      <<"b", "o", "d", "y">>,
      <<>> }

\* the lines joined by line feeds
RECURSIVE JoinLines(_)
JoinLines(lines) ==
    IF Len(lines) = 0 THEN <<>>
    ELSE IF Len(lines) = 1 THEN lines[1]
    ELSE lines[1] \o <<"\n">> \o JoinLines(Tail(lines))

Documents == {JoinLines(lines) : lines \in SeqsUpTo(LinePool, MaxLines)}

(* Documents with a name and further frontmatter lines *)

\* the frontmatter has at most this many lines after the name
MaxFieldLines == 2
\* a tools list has at most this many entries
MaxEntries == 2

NameLine == <<"n", "a", "m", "e", ":", " ", "x">>
BodyLine == <<"b", "o", "d", "y">>

\* lines with the keys the parser knows, and lines with other keys
KnownLines ==
    {<<"m", "o", "d", "e", "l", ":", " ", "f", "a", "s", "t">>,
     <<"d", "e", "s", "c", "r", "i", "p", "t", "i", "o", "n", ":", " ", "d">>,
     <<"t", "o", "o", "l", "s", ":", " ", "[", "\"", "a", "\"", ",", " ", "b", "]">>}
OtherLines ==
    {<<"c", "o", "l", "o", "r", ":", " ", "r", "e", "d">>,
     <<"M", "o", "d", "e", "l", ":", " ", "f", "a", "s", "t">>,
     <<"t", "o", "o", "l", ":", " ", "[", "a", "]">>}

\* the document of a name line and the given lines between two fence lines
FieldDocument(lines) == JoinLines(<<Fence, NameLine>> \o lines \o <<Fence, BodyLine>>)

\* an entry of a tools list: its text between quotes of a kind, or without
Entry(quote, text) == quote \o text \o quote

Entries ==
    {Entry(quote, text) : quote \in {<<"\"">>, <<"'">>, <<>>},
                          text \in {<<"a">>, <<"b", "c">>, <<>>}}

\* the entries between brackets, commas between them and pad around each
ListValue(entries, pad) ==
    <<"[">> \o Join([i \in 1..Len(entries) |-> pad \o entries[i] \o pad], <<",">>) \o <<"]">>

\* tools values that are no such list
MalformedValues ==
    {<<>>,
     <<"[", "\"", "a">>,
     <<"a", ",", " ", "b">>,
     <<",", "]", "]">>,
     <<"[", "[", "'", "a", "\"", "]">>}

ToolsLine(value) == <<"t", "o", "o", "l", "s", ":", " ">> \o value

FieldDocuments ==
    {FieldDocument(lines) : lines \in SeqsUpTo(KnownLines \cup OtherLines, MaxFieldLines)}
    \cup {FieldDocument(<<ToolsLine(ListValue(entries, pad))>>) :
             entries \in SeqsUpTo(Entries, MaxEntries), pad \in {<<>>, <<" ">>}}
    \cup {FieldDocument(<<ToolsLine(value)>>) : value \in MalformedValues}

\* a call of parse_agent_profile on the document
Parse ==
    /\ ~IsSome(parsed)
    /\ document \in Documents \cup FieldDocuments
    /\ parsed' = Some(ParseAgentProfile(document))
    /\ UNCHANGED <<loop_vars, aux_vars, router_vars, loader_vars, document, reparsed>>

\* ParseAgain reading what the first call left over: the body it returned
ParseAgainOnRest ==
    /\ IsSome(parsed)
    /\ ~IsSome(reparsed)
    /\ reparsed' = Some(IF IsSome(Unwrap(parsed))
                        THEN ParseAgentProfile(Unwrap(Unwrap(parsed)).system_prompt)
                        ELSE ParseAgentProfile(document))
    /\ UNCHANGED <<loop_vars, aux_vars, router_vars, loader_vars, document, parsed>>

\* a second call of parse_agent_profile on the same document
ParseAgain ==
    /\ IsSome(parsed)
    /\ ~IsSome(reparsed)
    /\ reparsed' = Some(ParseAgentProfile(document))
    /\ UNCHANGED <<loop_vars, aux_vars, router_vars, loader_vars, document, parsed>>

ParserInit ==
    /\ document \in Documents
    /\ parsed = None
    /\ reparsed = None
    /\ LoopIdle
    /\ RouterIdle
    /\ LoaderIdle
    /\ AuxIdle

ParserNext == Parse \/ ParseAgain

\* the parser given the documents with further frontmatter lines
FieldsInit ==
    /\ document \in FieldDocuments
    /\ parsed = None
    /\ reparsed = None
    /\ LoopIdle
    /\ RouterIdle
    /\ LoaderIdle
    /\ AuxIdle

SpecFields == FieldsInit /\ [][ParserNext]_vars

SpecParser == ParserInit /\ [][ParserNext]_vars

(* Observations of the parser: the document read line by line *)

\* parse_agent_profile has returned, and what
Parsed == IsSome(parsed)
ParseResult == Unwrap(parsed)

\* the lines of the document, blank space around the document left out
DocLines == Lines(Trim(document))

\* the document starts with a line that is the fence
HasOpeningFence == Len(DocLines) >= 1 /\ DocLines[1] = Fence

\* the first later line that is the fence, 0 if there is none
ClosingLine ==
    IF \E i \in 2..Len(DocLines) : DocLines[i] = Fence
    THEN CHOOSE i \in 2..Len(DocLines) :
             DocLines[i] = Fence /\ \A j \in 2..(i - 1) : DocLines[j] # Fence
    ELSE 0

HasClosingFence == HasOpeningFence /\ ClosingLine > 0

\* the lines between the two fence lines, and the text after the closing one
FrontmatterLines == SubSeq(DocLines, 2, ClosingLine - 1)
TextAfterClosingLine == JoinLines(SubSeq(DocLines, ClosingLine + 1, Len(DocLines)))

HasNameLine ==
    /\ HasClosingFence
    /\ \E i \in 1..Len(FrontmatterLines) :
          StartsWith(Trim(FrontmatterLines[i]), <<"n", "a", "m", "e", ":">>)

\* the profile of the frontmatter lines and of the text after the closing line
LineProfile == ProfileOf(ParseLines(FrontmatterLines, NoFields), Trim(TextAfterClosingLine))

----------------------------------------------------------------------------
(* C16, C17: the profile parser *)

\* C16: parse_agent_profile yields a profile exactly for the documents that
\* start with a fence line, have a later fence line and a name: line between
\* the two; for a document without the opening fence, without the closing
\* fence, or without a name: line in the frontmatter it yields none.
C16_ProfileIffFencesAndName ==
    Parsed => (IsSome(ParseResult) <=> (HasOpeningFence /\ HasClosingFence /\ HasNameLine))

\* C17: the frontmatter ends at the first later line that is exactly the
\* fence: the fields are those of the lines between the two fence lines, not
\* cut at a --- inside a line, and the system prompt is the trimmed text after
\* the closing fence line.
C17_FrontmatterEndsAtFenceLine ==
    (Parsed /\ HasOpeningFence /\ HasClosingFence) => ParseResult = LineProfile

----------------------------------------------------------------------------
(* load_profiles, load_profiles_from_dir and load_embedded_profiles *)

\* const MAX_PROFILE_FILE_BYTES (1024 * 1024)
MAX_PROFILE_FILE_BYTES == 1048576

\* a directory entry: the extension of its path, whether path.metadata()
\* succeeds, metadata.len(), whether read_to_string succeeds, and the text read
File(e, m, l, r, c) ==
    [ext |-> e, metadata_ok |-> m, len |-> l, readable |-> r, content |-> c]

\* a directory: whether read_dir succeeds, and its entries in the order read
Dir(x, es) == [exists |-> x, entries |-> es]

\* the state load_profiles passes to its steps
LoadState(ps, names) == [profiles |-> ps, loaded_names |-> names]

\* Oversized rejecting a file of exactly the maximum size too
OversizedOrEqual(len) == len >= MAX_PROFILE_FILE_BYTES

\* load_profiles_from_dir, line 146: metadata.len() > MAX_PROFILE_FILE_BYTES
Oversized(len) == len > MAX_PROFILE_FILE_BYTES

\* PushIfNew letting a later profile take the place of an earlier one of its name
PushIfNewReplaces(st, profile) ==
    IF profile.name \notin st.loaded_names
    THEN LoadState(Append(st.profiles, profile), st.loaded_names \cup {profile.name})
    ELSE LoadState([i \in 1..Len(st.profiles) |->
                       IF st.profiles[i].name = profile.name THEN profile
                       ELSE st.profiles[i]],
                   st.loaded_names)

\* PushIfNew pushing whether or not the name is already loaded
PushAlways(st, profile) ==
    LoadState(Append(st.profiles, profile), st.loaded_names \cup {profile.name})

\* lines 119-121 and 157-161: if loaded_names.insert(name) { profiles.push(profile) }
PushIfNew(st, profile) ==
    IF profile.name \notin st.loaded_names
    THEN LoadState(Append(st.profiles, profile), st.loaded_names \cup {profile.name})
    ELSE st

\* load_agent_profile_from_file
LoadAgentProfileFromFile(file) ==
    IF ~file.readable THEN None ELSE ParseAgentProfile(file.content)

\* load_profiles_from_dir, lines 134-162: the body of the loop for one entry
LoadEntry(file, st) ==
    IF file.ext # "md" THEN st
    ELSE IF ~file.metadata_ok THEN st
    ELSE IF Oversized(file.len) THEN st
    ELSE LET profile == LoadAgentProfileFromFile(file) IN
         IF IsSome(profile) THEN PushIfNew(st, Unwrap(profile)) ELSE st

\* LoadEntries giving up the directory at the first file that cannot be read
\* or parsed
RECURSIVE LoadEntriesStopAtFailure(_, _)
LoadEntriesStopAtFailure(entries, st) ==
    IF Len(entries) = 0 THEN st
    ELSE IF /\ Head(entries).ext = "md"
            /\ Head(entries).metadata_ok
            /\ ~Oversized(Head(entries).len)
            /\ ~IsSome(LoadAgentProfileFromFile(Head(entries)))
         THEN st
         ELSE LoadEntriesStopAtFailure(Tail(entries), LoadEntry(Head(entries), st))

\* load_profiles_from_dir, line 133: the loop over the entries
RECURSIVE LoadEntries(_, _)
LoadEntries(entries, st) ==
    IF Len(entries) = 0 THEN st
    ELSE LoadEntries(Tail(entries), LoadEntry(Head(entries), st))

\* load_profiles_from_dir
LoadProfilesFromDir(dir, st) ==
    IF dir.exists THEN LoadEntries(dir.entries, st) ELSE st

\* a profile document with a name and a body
ProfileDocument(name, body) ==
    Fence \o <<"\n">> \o <<"n", "a", "m", "e", ":", " ">> \o name \o <<"\n">> \o Fence \o <<"\n">> \o body

\* a document with a name whose frontmatter is not closed
BrokenDocument(name, body) ==
    Fence \o <<"\n">> \o <<"n", "a", "m", "e", ":", " ">> \o name \o <<"\n">> \o body

\* the embedded documents: planner.md, code_reviewer.md, architect.md and
\* build_error_resolver.md, each with the name its file has
EmbeddedSources ==
    << ProfileDocument(<<"p", "l", "a", "n", "n", "e", "r">>, <<"E", "1">>),
       ProfileDocument(<<"c", "o", "d", "e", "_", "r", "e", "v", "i", "e", "w", "e", "r">>,
                       <<"E", "2">>),
       ProfileDocument(<<"a", "r", "c", "h", "i", "t", "e", "c", "t">>, <<"E", "3">>),
       ProfileDocument(<<"b", "u", "i", "l", "d", "_", "e", "r", "r", "o", "r", "_", "r", "e", "s", "o", "l", "v", "e", "r">>,
                       <<"E", "4">>) >>

\* load_embedded_profiles
LoadEmbeddedProfiles ==
    LET parses == [i \in 1..Len(EmbeddedSources) |-> ParseAgentProfile(EmbeddedSources[i])]
        kept == SelectSeq(parses, LAMBDA r : IsSome(r))
    IN  [i \in 1..Len(kept) |-> Unwrap(kept[i])]

\* load_profiles, lines 118-122: the loop over the embedded profiles
RECURSIVE PushEmbedded(_, _)
PushEmbedded(embedded, st) ==
    IF Len(embedded) = 0 THEN st
    ELSE PushEmbedded(Tail(embedded), PushIfNew(st, Head(embedded)))

(* The directories load_profiles finds *)

\* the two directories hold at most this many entries together
MaxFiles == 2

\* the entries a directory of a tier ("P" project-local, "U" user-global) may
\* hold; the body of a document tells the tier and the entry it comes from
FilePool(tier) ==
    LET planner == ProfileDocument(<<"p", "l", "a", "n", "n", "e", "r">>, <<tier, "1">>)
        custom(k) == ProfileDocument(<<"c", "u", "s", "t", "o", "m">>, <<tier, k>>)
        garbage == <<"n", "o", " ", "f", "r", "o", "n", "t", "m", "a", "t", "t", "e", "r">>
        broken == BrokenDocument(<<"p", "l", "a", "n", "n", "e", "r">>, <<tier, "9">>)
    IN  { File("md", TRUE, ByteLen(planner), TRUE, planner),
          File("md", TRUE, ByteLen(broken), TRUE, broken),
          File("md", TRUE, ByteLen(custom("2")), TRUE, custom("2")),
          File("md", TRUE, MAX_PROFILE_FILE_BYTES, TRUE, custom("3")),
          File("md", TRUE, MAX_PROFILE_FILE_BYTES + 1, TRUE, custom("4")),
          File("md", TRUE, ByteLen(custom("5")), FALSE, custom("5")),
          File("md", TRUE, ByteLen(garbage), TRUE, garbage),
          File("txt", TRUE, ByteLen(custom("7")), TRUE, custom("7")),
          File("md", FALSE, ByteLen(custom("8")), TRUE, custom("8")) }

\* the states of a directory with n entries
DirStates(tier, n) ==
    {Dir(TRUE, es) : es \in {fs \in SeqsUpTo(FilePool(tier), n) : Len(fs) = n}}
        \cup (IF n = 0 THEN {Dir(FALSE, <<>>)} ELSE {})

\* load_profiles, lines 108-109: the project-local directory
LoadProjectDir ==
    /\ load_pc = "Project"
    /\ LET st == LoadProfilesFromDir(Unwrap(project_dir), LoadState(profiles, loaded_names))
       IN  /\ profiles' = st.profiles
           /\ loaded_names' = st.loaded_names
    /\ load_pc' = "User"
    /\ UNCHANGED <<loop_vars, aux_vars, parser_vars, router_vars, project_dir, user_dir>>

\* load_profiles, lines 112-115: the user-global directory, if there is a
\* configuration directory
LoadUserDir ==
    /\ load_pc = "User"
    /\ LET st == IF IsSome(user_dir)
                 THEN LoadProfilesFromDir(Unwrap(user_dir), LoadState(profiles, loaded_names))
                 ELSE LoadState(profiles, loaded_names)
       IN  /\ profiles' = st.profiles
           /\ loaded_names' = st.loaded_names
    /\ load_pc' = "Embedded"
    /\ UNCHANGED <<loop_vars, aux_vars, parser_vars, router_vars, project_dir, user_dir>>

\* load_profiles, lines 118-124: the embedded defaults, and the return
LoadEmbedded ==
    /\ load_pc = "Embedded"
    /\ LET st == PushEmbedded(LoadEmbeddedProfiles, LoadState(profiles, loaded_names))
       IN  /\ profiles' = st.profiles
           /\ loaded_names' = st.loaded_names
    /\ load_pc' = "Done"
    /\ UNCHANGED <<loop_vars, aux_vars, parser_vars, router_vars, project_dir, user_dir>>

\* load_profiles, lines 104-105, called with the directories in some state
LoaderInit ==
    /\ \E np \in 0..MaxFiles : \E nu \in 0..(MaxFiles - np) :
          /\ project_dir \in {Some(d) : d \in DirStates("P", np)}
          /\ user_dir \in {Some(d) : d \in DirStates("U", nu)}
                             \cup (IF nu = 0 THEN {None} ELSE {})
    /\ profiles = <<>>
    /\ loaded_names = {}
    /\ load_pc = "Project"
    /\ LoopIdle
    /\ ParserIdle
    /\ RouterIdle
    /\ AuxIdle

LoaderNext == LoadProjectDir \/ LoadUserDir \/ LoadEmbedded

SpecLoader == LoaderInit /\ [][LoaderNext]_vars

(* Observations of the loader *)

\* load_profiles has returned
Loaded == load_pc = "Done"

\* the entries a tier's directory offers to the loader
EntriesOf(dir) ==
    IF IsSome(dir) /\ Unwrap(dir).exists THEN Unwrap(dir).entries ELSE <<>>

\* a profile file: an .md entry whose metadata and text can be read and parsed
IsProfileFile(file) ==
    /\ file.ext = "md"
    /\ file.metadata_ok
    /\ file.readable
    /\ IsSome(ParseAgentProfile(file.content))

ProfileIn(file) == Unwrap(ParseAgentProfile(file.content))

\* the names a tier's directory provides: those of its profile files of at
\* most 1 MiB
ProvidedNames(dir) ==
    {ProfileIn(f).name : f \in {g \in Range(EntriesOf(dir)) :
                                   IsProfileFile(g) /\ g.len <= 1048576}}

\* the tier a loaded profile comes from: 1 project-local, 2 user-global, 3 embedded
Tier(profile) ==
    IF Head(profile.system_prompt) = "P" THEN 1
    ELSE IF Head(profile.system_prompt) = "U" THEN 2
    ELSE 3

EmbeddedNames == {LoadEmbeddedProfiles[i].name : i \in 1..Len(LoadEmbeddedProfiles)}

\* how many loaded profiles have the name
CountNamed(n) == Cardinality({i \in 1..Len(profiles) : profiles[i].name = n})

----------------------------------------------------------------------------
(* C18..C20: the profile loader *)

\* C18 (state part): the loaded profiles are in tier order and have distinct
\* names; a name the project-local directory provides is held by a
\* project-local profile, a name only the user-global directory provides by a
\* user-global one.
C18_TierInvariant ==
    /\ \A i \in 1..Len(profiles) : \A j \in (i + 1)..Len(profiles) :
          /\ Tier(profiles[i]) <= Tier(profiles[j])
          /\ profiles[i].name # profiles[j].name
    /\ Loaded =>
          /\ \A n \in ProvidedNames(project_dir) :
                \E i \in 1..Len(profiles) : profiles[i].name = n /\ Tier(profiles[i]) = 1
          /\ \A n \in ProvidedNames(user_dir) \ ProvidedNames(project_dir) :
                \E i \in 1..Len(profiles) : profiles[i].name = n /\ Tier(profiles[i]) = 2

\* C18: in the list load_profiles builds a profile of a higher tier is never
\* replaced by a same-named profile of a lower tier (a loaded profile stays
\* where it is, a claimed name stays claimed), and the list is in tier order:
\* project-local, then user-global, then embedded.
C18_HigherTierWins ==
    /\ []C18_TierInvariant
    /\ [][/\ IsPrefix(profiles, profiles')
          /\ loaded_names \subseteq loaded_names']_vars

C18_Witness ==
    /\ Loaded
    /\ <<"p", "l", "a", "n", "n", "e", "r">> \in ProvidedNames(project_dir)
    /\ <<"p", "l", "a", "n", "n", "e", "r">> \in ProvidedNames(user_dir)
    /\ Len(profiles) = 4
    /\ profiles[1].name = <<"p", "l", "a", "n", "n", "e", "r">>
    /\ profiles[1].system_prompt = <<"P", "1">>
    /\ Tier(profiles[2]) = 3

\* C19: a profile file (an .md entry that can be read and parsed) larger than
\* 1048576 bytes produces no profile and claims no name; one of at most
\* 1048576 bytes, the exact size included, has its name loaded from its own
\* tier or a higher one, whatever oversized files stand beside it.
C19_OversizedSkipped ==
    Loaded =>
        /\ \A dir \in {project_dir, user_dir} : \A f \in Range(EntriesOf(dir)) :
              IsProfileFile(f) =>
                 IF f.len > 1048576
                 THEN \A i \in 1..Len(profiles) : profiles[i] # ProfileIn(f)
                 ELSE \E i \in 1..Len(profiles) :
                         /\ profiles[i].name = ProfileIn(f).name
                         /\ Tier(profiles[i]) <= Tier(ProfileIn(f))
        /\ \A n \in loaded_names :
              n \in ProvidedNames(project_dir) \cup ProvidedNames(user_dir) \cup EmbeddedNames

C19_Witness ==
    /\ Loaded
    /\ Len(EntriesOf(project_dir)) = 2
    /\ EntriesOf(project_dir)[1].len = 1048577
    /\ EntriesOf(project_dir)[2].len = 1048576
    /\ Len(profiles) = 5
    /\ profiles[1].system_prompt = <<"P", "3">>

\* C20: whatever the two directories hold, the list load_profiles returns has
\* exactly one profile of each embedded name.
C20_EmbeddedNamesOnce ==
    Loaded => \A n \in EmbeddedNames : CountNamed(n) = 1

C20_Witness ==
    /\ Loaded
    /\ Len(EntriesOf(project_dir)) = 1
    /\ Len(EntriesOf(user_dir)) = 1
    /\ ~EntriesOf(project_dir)[1].readable
    /\ <<"p", "l", "a", "n", "n", "e", "r">> \in ProvidedNames(user_dir)
    /\ CountNamed(<<"p", "l", "a", "n", "n", "e", "r">>) = 1
    /\ Len(profiles) = 4
    /\ Cardinality(EmbeddedNames) = 4

----------------------------------------------------------------------------
(* C30: the tool executions of a round *)

\* C30 (state part): the calls executed in a round are, in order, the first
\* of the ToolCall items of that round's response, all of them once the round
\* is over; the executions of different rounds do not mix; while a round
\* executes its tools the backend has been invoked once per round.
C30_RoundOrder ==
    /\ \A r \in 1..steps :
          /\ r <= Len(backend_log)
          /\ backend_log[r].tag = "Ok"
          /\ IsPrefix(RoundExecuted(r), ToolCallsOf(backend_log[r].value))
          /\ r < steps => RoundExecuted(r) = ToolCallsOf(backend_log[r].value)
    /\ \A i \in 1..Len(executed) : \A j \in (i + 1)..Len(executed) :
          executed[i][1] <= executed[j][1]
    /\ pc = "ExecutingTools" =>
          /\ completions = steps
          /\ RoundExecuted(steps) \o tool_calls = ToolCallsOf(response)

\* C30: within a round the tools are executed one at a time in the order of
\* the ToolCall items of the response: a step executes at most one call, the
\* next pending one, and does not invoke the backend; the backend is invoked
\* only when no call of a round is pending.
C30_ToolsRunInOrder ==
    /\ []C30_RoundOrder
    /\ [][/\ Len(executed') <= Len(executed) + 1
          /\ executed' # executed =>
                /\ completions' = completions
                /\ executed' = Append(executed, <<steps, Head(tool_calls)>>)
          /\ completions' # completions => pc = "AwaitingCompletion" /\ tool_calls = <<>>]_vars

C30_Witness ==
    /\ Returned
    /\ completions = 2
    /\ Len(executed) = 2
    /\ executed[1] = <<1, ToolCall(1, "mock_tool", 1)>>
    /\ executed[2] = <<1, ToolCall(2, "mock_tool", 2)>>
    /\ Result.tag = "Ok"

----------------------------------------------------------------------------
(* The DAG node adapters: AgentAction::run and ToolLoopAction::run *)

\* a node has at most this many upstream edges
MaxSenders == 2

\* dagrs::Content holding a String, and holding a value of another type
StringContent(text) == [kind |-> "String", value |-> text]
OtherValue == [kind |-> "Other"]

\* content.get::<String>()
GetString(content) == IF content.kind = "String" THEN Some(content.value) ELSE None

\* dagrs::Output::Out and Output::Err
OutputOut(content) == [tag |-> "Out", content |-> content]
OutputErr(msg) == [tag |-> "Err", msg |-> msg]

\* the separator of inputs.join("\n\n")
BlankLine == <<"\n", "\n">>

\* the text the upstream node with that identifier produces
UpstreamText(id) == Str(<<"A", "B", "C", "D">>[id])

\* what an upstream node may send
UpstreamValues(id) == {StringContent(UpstreamText(id)), OtherValue}

\* the sender identifiers in_channels.get_sender_ids() may report: the
\* upstream nodes in any order
SenderIdLists ==
    {ids \in SeqsUpTo(1..MaxSenders, MaxSenders) :
        \A i \in 1..Len(ids) : \A j \in 1..Len(ids) : i # j => ids[i] # ids[j]}

\* an inbound channel: nothing sent yet, a value waiting, the value taken by
\* recv_from, or closed without a value
Channel(state, content) == [state |-> state, content |-> content]
EmptyChannel == Channel("Empty", OtherValue)

\* what the wrapped agent (Agent::prompt) or loop (run_tool_loop) may return
AgentError == Err("CompletionError", "agent failed", 0)
AgentResults == {Ok(Str("R")), Ok(EmptyStr), AgentError}

\* NextSender taking the sender whose value became available first
NextArrived(n) ==
    LET waiting == SelectSeq(n.arrivals, LAMBDA id : n.in_channels[id].state = "Full") IN
    IF Len(waiting) > 0 THEN waiting[1] ELSE n.ids[Len(n.received) + 1]

\* lines 89-90: the sender the loop `for id in ids` is at
NextSender(n) == n.ids[Len(n.received) + 1]

\* an upstream node sends its value: it becomes available on the channel
UpstreamSends(id, content) ==
    /\ node.pc # "Done"
    /\ id \in Range(node.ids)
    /\ node.in_channels[id].state = "Empty"
    /\ node' = [node EXCEPT !.in_channels[id] = Channel("Full", content),
                            !.arrivals = Append(@, id)]
    /\ UNCHANGED <<loop_vars, profile_vars, util_vars, shortlog_vars, concurrent_vars>>

\* an upstream node ends without sending: its channel is closed
UpstreamCloses(id) ==
    /\ node.pc # "Done"
    /\ id \in Range(node.ids)
    /\ node.in_channels[id].state = "Empty"
    /\ node' = [node EXCEPT !.in_channels[id] = Channel("Closed", OtherValue)]
    /\ UNCHANGED <<loop_vars, profile_vars, util_vars, shortlog_vars, concurrent_vars>>

\* Recv going on to the next sender when recv_from fails
RecvSkipsFailure ==
    /\ node.pc = "Receiving"
    /\ Len(node.received) < Len(node.ids)
    /\ LET id == NextSender(node)
           channel == node.in_channels[id]
       IN  /\ channel.state \in {"Full", "Closed"}
           /\ IF channel.state = "Full"
              THEN LET text == GetString(channel.content) IN
                   node' = [node EXCEPT
                               !.in_channels[id] = Channel("Taken", channel.content),
                               !.received = Append(@, channel.content),
                               !.inputs = IF IsSome(text) THEN Append(@, Unwrap(text))
                                          ELSE @]
              ELSE node' = [node EXCEPT !.received = Append(@, channel.content)]
    /\ UNCHANGED <<loop_vars, profile_vars, util_vars, shortlog_vars, concurrent_vars>>

\* lines 89-109 (208-228): in_channels.recv_from(&id).await returns for the
\* sender the loop is at
Recv ==
    /\ node.pc = "Receiving"
    /\ Len(node.received) < Len(node.ids)
    /\ LET id == NextSender(node)
           channel == node.in_channels[id]
       IN  /\ channel.state \in {"Full", "Closed"}
           /\ IF channel.state = "Full"
              THEN LET text == GetString(channel.content) IN
                   node' = [node EXCEPT
                               !.in_channels[id] = Channel("Taken", channel.content),
                               !.received = Append(@, channel.content),
                               !.inputs = IF IsSome(text) THEN Append(@, Unwrap(text))
                                          ELSE @]
              ELSE node' = [node EXCEPT
                               !.output = Some(OutputErr(<<"recv", id>>)),
                               !.pc = "Done"]
    /\ UNCHANGED <<loop_vars, profile_vars, util_vars, shortlog_vars, concurrent_vars>>

\* lines 112-115 (231-234): the inputs are joined and the agent, or the tool
\* loop, is called with the prompt
Invoke ==
    /\ node.pc = "Receiving"
    /\ Len(node.received) = Len(node.ids)
    /\ node' = [node EXCEPT !.prompt = Some(Join(node.inputs, BlankLine)),
                            !.calls = @ + 1,
                            !.pc = "Running"]
    /\ UNCHANGED <<loop_vars, profile_vars, util_vars, shortlog_vars, concurrent_vars>>

\* AgentReturns broadcasting an empty content when the agent failed
AgentReturnsAlwaysBroadcasts(result) ==
    /\ node.pc = "Running"
    /\ IF result.tag = "Ok"
       THEN node' = [node EXCEPT !.agent_result = Some(result),
                                 !.out_channels = Append(@, StringContent(result.value)),
                                 !.pc = "Broadcasting"]
       ELSE node' = [node EXCEPT !.agent_result = Some(result),
                                 !.out_channels = Append(@, StringContent(EmptyStr)),
                                 !.output = Some(OutputErr(result.msg)),
                                 !.pc = "Done"]
    /\ UNCHANGED <<loop_vars, profile_vars, util_vars, shortlog_vars, concurrent_vars>>

\* lines 115-125 (234-244): the agent, or the tool loop, returns; on Ok the
\* content is broadcast, on Err the node returns Output::Err
AgentReturns(result) ==
    /\ node.pc = "Running"
    /\ IF result.tag = "Ok"
       THEN node' = [node EXCEPT !.agent_result = Some(result),
                                 !.out_channels = Append(@, StringContent(result.value)),
                                 !.pc = "Broadcasting"]
       ELSE node' = [node EXCEPT !.agent_result = Some(result),
                                 !.output = Some(OutputErr(result.msg)),
                                 !.pc = "Done"]
    /\ UNCHANGED <<loop_vars, profile_vars, util_vars, shortlog_vars, concurrent_vars>>

\* line 120 (239): the broadcast is over and the node returns Output::Out
ReturnOut ==
    /\ node.pc = "Broadcasting"
    /\ node' = [node EXCEPT
                   !.output = Some(OutputOut(Some(StringContent(
                                  Unwrap(node.agent_result).value)))),
                   !.pc = "Done"]
    /\ UNCHANGED <<loop_vars, profile_vars, util_vars, shortlog_vars, concurrent_vars>>

\* Action::run is entered: lines 86-87 (205-206)
NodeInit ==
    /\ node \in [action : {"AgentAction", "ToolLoopAction"},
                 ids : SenderIdLists,
                 in_channels : {[id \in 1..MaxSenders |-> EmptyChannel]},
                 arrivals : {<<>>},
                 received : {<<>>},
                 inputs : {<<>>},
                 pc : {"Receiving"},
                 prompt : {None},
                 calls : {0},
                 agent_result : {None},
                 out_channels : {<<>>},
                 output : {None}]
    /\ LoopIdle
    /\ ProfileIdle
    /\ AnchorIdle
    /\ ShortlogIdle
    /\ InvocationsIdle

NodeNext ==
    \/ \E id \in 1..MaxSenders : \E content \in UpstreamValues(id) : UpstreamSends(id, content)
    \/ \E id \in 1..MaxSenders : UpstreamCloses(id)
    \/ Recv
    \/ Invoke
    \/ \E result \in AgentResults : AgentReturns(result)
    \/ ReturnOut

SpecNode == NodeInit /\ [][NodeNext]_vars

(* Observations of a node *)

\* the run has ended
NodeDone == node.pc = "Done"

\* the value the upstream node at place i of the reported identifiers sent
SentBy(i) == node.in_channels[node.ids[i]].content

\* every upstream value read so far is a text
AllText == \A i \in 1..Len(node.received) : node.received[i].kind = "String"

\* the agent has been called
Invoked == IsSome(node.prompt)

----------------------------------------------------------------------------
(* C21..C23: the DAG node adapters *)

\* C21: when every upstream value is a text, the prompt the agent or loop is
\* called with is the texts joined by a blank line in the order of the
\* reported sender identifiers, whatever the order of arrival; without
\* upstream edges the prompt is empty and the agent is still called; a run
\* that read all its inputs calls the agent exactly once.
C21_PromptInSenderOrder ==
    /\ (Invoked /\ AllText) =>
          /\ Len(node.received) = Len(node.ids)
          /\ Unwrap(node.prompt) =
                Join([i \in 1..Len(node.ids) |-> SentBy(i).value], BlankLine)
    /\ (Invoked /\ Len(node.ids) = 0) => Unwrap(node.prompt) = EmptyStr
    /\ (NodeDone /\ Len(node.received) = Len(node.ids)) => Invoked
    /\ node.calls = (IF Invoked THEN 1 ELSE 0)

C21_Witness ==
    /\ NodeDone
    /\ node.ids = <<1, 2>>
    /\ node.arrivals = <<2, 1>>
    /\ node.prompt = Some(<<"A", "\n", "\n", "B">>)

\* C22: a run ends in one of two ways: the agent or loop returned a text,
\* that text was broadcast exactly once and the node reports Out with the
\* same content; or the node reports Err and nothing was broadcast.  Nothing
\* is broadcast before the agent or loop has returned a text.
C22_BroadcastIffSuccess ==
    /\ Len(node.out_channels) <= 1
    /\ Len(node.out_channels) = 1 =>
          /\ IsSome(node.agent_result)
          /\ Unwrap(node.agent_result).tag = "Ok"
          /\ node.out_channels[1] = StringContent(Unwrap(node.agent_result).value)
    /\ NodeDone =>
          /\ IsSome(node.output)
          /\ \/ /\ Unwrap(node.output).tag = "Out"
                /\ Len(node.out_channels) = 1
                /\ Unwrap(node.output).content = Some(node.out_channels[1])
             \/ /\ Unwrap(node.output).tag = "Err"
                /\ Len(node.out_channels) = 0
    /\ ~NodeDone => ~IsSome(node.output)

C22_Witness ==
    /\ NodeDone
    /\ node.agent_result = Some(Ok(Str("R")))
    /\ node.out_channels = <<StringContent(Str("R"))>>
    /\ node.output = Some(OutputOut(Some(StringContent(Str("R")))))

\* C23: an upstream value that is not a text does not fail the node and
\* stands as the empty text at its place among the upstream texts: the prompt
\* is the join, by blank lines, of one text per upstream value.
C23_NonTextCountsAsEmpty ==
    /\ Invoked =>
          Unwrap(node.prompt) =
             Join([i \in 1..Len(node.ids) |->
                      IF SentBy(i).kind = "String" THEN SentBy(i).value ELSE EmptyStr],
                  BlankLine)
    /\ (NodeDone /\ Len(node.received) = Len(node.ids)) => Invoked

----------------------------------------------------------------------------
(* C25: parsing twice *)

----------------------------------------------------------------------------
(* The commit anchor utilities: normalize_commit_anchor and                *)
(* extract_sha1_from_anchor                                                *)

\* the length of a SHA-1 hash in hex digits, and of a SHA-256 hash and an anchor
SHA1_LEN == 40
ANCHOR_LEN == 64

\* char::is_ascii_hexdigit
IsAsciiHexdigit(c) ==
    c \in Digits \cup {"a", "b", "c", "d", "e", "f"} \cup {"A", "B", "C", "D", "E", "F"}

\* str::to_ascii_lowercase
ToAsciiLowercase(s) ==
    [i \in 1..Len(s) |-> IF s[i] \in Range(UpperCaseLetters) THEN ToLowerChar(s[i]) ELSE s[i]]

\* v.chars().all(|c| c.is_ascii_hexdigit())
AllHex(v) == \A i \in 1..Len(v) : IsAsciiHexdigit(v[i])

\* normalize_commit_anchor, lines 81-83: while out.len() < 64 { out.push('0') }
RECURSIVE PadZeros(_)
PadZeros(out) == IF ByteLen(out) < ANCHOR_LEN THEN PadZeros(Append(out, "0")) ELSE out

\* NormalizeCommitAnchor without the conversion to lower case
NormalizeKeepsCase(commit) ==
    LET v == Trim(commit) IN
    IF ~AllHex(v) THEN Err("String", "non-hex characters", v)
    ELSE IF ByteLen(v) = ANCHOR_LEN THEN Ok(v)
    ELSE IF ByteLen(v) = SHA1_LEN THEN Ok(PadZeros(v))
    ELSE Err("String", "invalid length", ByteLen(v))

\* normalize_commit_anchor
NormalizeCommitAnchor(commit) ==
    LET trimmed == Trim(commit) IN
    IF ~AllHex(trimmed) THEN Err("String", "non-hex characters", trimmed)
    ELSE LET v == ToAsciiLowercase(trimmed) IN
         IF ByteLen(v) = ANCHOR_LEN THEN Ok(v)
         ELSE IF ByteLen(v) = SHA1_LEN THEN Ok(PadZeros(v))
         ELSE Err("String", "invalid length", ByteLen(v))

\* ExtractSha1FromAnchor without the test of the length
ExtractSha1NoLengthTest(anchor64) ==
    LET v == Trim(anchor64) IN
    IF ~AllHex(v) THEN Err("String", "non-hex characters", v)
    ELSE Ok(SubSeq(v, 1, IF Len(v) < SHA1_LEN THEN Len(v) ELSE SHA1_LEN))

\* extract_sha1_from_anchor
ExtractSha1FromAnchor(anchor64) ==
    LET v == Trim(anchor64) IN
    IF ByteLen(v) # ANCHOR_LEN THEN Err("String", "invalid length", ByteLen(v))
    ELSE IF ~AllHex(v) THEN Err("String", "non-hex characters", v)
    ELSE Ok(SubSeq(v, 1, IF Len(v) < SHA1_LEN THEN Len(v) ELSE SHA1_LEN))

(* The strings given to the utilities *)

\* the lengths tried differ from 40 and from 64 by at most this much
MaxSkew == 1

\* n times the character c
Repeat(c, n) == [i \in 1..n |-> c]

HashChars == {"a", "F", "9", "g", "U+00E9"}

HashLengths ==
    {0} \cup {SHA1_LEN + d : d \in (0 - MaxSkew)..MaxSkew}
        \cup {ANCHOR_LEN + d : d \in (0 - MaxSkew)..MaxSkew}

\* a first character, then one character repeated, n characters in all, with
\* or without white space around
CommitStrings ==
    {left \o (IF n = 0 THEN <<>> ELSE <<first>> \o Repeat(rest, n - 1)) \o right :
        left \in {<<>>, <<" ">>}, right \in {<<>>, <<"\n">>},
        first \in HashChars, rest \in HashChars, n \in HashLengths}

\* normalize_commit_anchor(commit)
Normalize ==
    /\ ~IsSome(anchor.normalized)
    /\ anchor' = [anchor EXCEPT !.normalized = Some(NormalizeCommitAnchor(anchor.commit))]
    /\ UNCHANGED <<loop_vars, profile_vars, adapter_vars, shortlog_vars, concurrent_vars>>

\* extract_sha1_from_anchor applied to the anchor normalize_commit_anchor returned
Extract ==
    /\ IsSome(anchor.normalized)
    /\ Unwrap(anchor.normalized).tag = "Ok"
    /\ ~IsSome(anchor.extracted)
    /\ anchor' = [anchor EXCEPT
                     !.extracted = Some(ExtractSha1FromAnchor(Unwrap(anchor.normalized).value))]
    /\ UNCHANGED <<loop_vars, profile_vars, adapter_vars, shortlog_vars, concurrent_vars>>

\* normalize_commit_anchor applied to its own result
NormalizeAgain ==
    /\ IsSome(anchor.normalized)
    /\ Unwrap(anchor.normalized).tag = "Ok"
    /\ ~IsSome(anchor.renormalized)
    /\ anchor' = [anchor EXCEPT
                     !.renormalized = Some(NormalizeCommitAnchor(Unwrap(anchor.normalized).value))]
    /\ UNCHANGED <<loop_vars, profile_vars, adapter_vars, shortlog_vars, concurrent_vars>>

\* extract_sha1_from_anchor applied to the string itself
ExtractRaw ==
    /\ ~IsSome(anchor.raw_extracted)
    /\ anchor' = [anchor EXCEPT !.raw_extracted = Some(ExtractSha1FromAnchor(anchor.commit))]
    /\ UNCHANGED <<loop_vars, profile_vars, adapter_vars, shortlog_vars, concurrent_vars>>

AnchorInit ==
    /\ anchor \in [commit : CommitStrings, normalized : {None}, extracted : {None},
                   renormalized : {None}, raw_extracted : {None}]
    /\ LoopIdle
    /\ ProfileIdle
    /\ NodeIdle
    /\ ShortlogIdle
    /\ InvocationsIdle

AnchorNext == Normalize \/ Extract \/ NormalizeAgain \/ ExtractRaw

SpecAnchor == AnchorInit /\ [][AnchorNext]_vars

(* Observations of the utilities *)

\* the string without the white space around it
Trimmed == Trim(anchor.commit)

\* the string is made of hex digits only
HexOnly == \A i \in 1..Len(Trimmed) : Trimmed[i] \in Range(<<"0", "1", "2", "3", "4", "5", "6", "7",
                                          "8", "9", "a", "b", "c", "d", "e", "f",
                                          "A", "B", "C", "D", "E", "F">>)

\* the string is a SHA-1 hash in hex
IsSha1String == HexOnly /\ Len(Trimmed) = 40

----------------------------------------------------------------------------
(* C26, C27: commit anchors *)

\* C26: for a string that is, white space around it apart, 40 hex digits in
\* any letter case, normalize_commit_anchor succeeds and
\* extract_sha1_from_anchor of the result is the trimmed string in lower
\* case; extract_sha1_from_anchor fails for every string whose trimmed length
\* is not 64 or that, trimmed, holds a character that is no hex digit.
C26_Sha1RoundTrip ==
    /\ (IsSha1String /\ IsSome(anchor.normalized)) => Unwrap(anchor.normalized).tag = "Ok"
    /\ (IsSha1String /\ IsSome(anchor.extracted)) =>
          Unwrap(anchor.extracted) = Ok(ToLowercase(Trimmed))
    /\ (IsSome(anchor.raw_extracted) /\ (Len(Trimmed) # 64 \/ ~HexOnly)) =>
          Unwrap(anchor.raw_extracted).tag = "Err"

C26_Witness ==
    /\ IsSome(anchor.extracted)
    /\ IsSome(anchor.raw_extracted)
    /\ anchor.commit[1] = " "
    /\ anchor.commit[2] = "F"
    /\ Len(anchor.commit) = 42
    /\ Unwrap(anchor.extracted).tag = "Ok"
    /\ Unwrap(anchor.extracted).value = <<"f">> \o Repeat("a", 39)
    /\ Unwrap(anchor.raw_extracted).tag = "Err"

\* C27: normalize_commit_anchor succeeds exactly for the strings that,
\* trimmed, are made of hex digits only and have length 40 or 64; its result
\* is 64 lower-case hex digits: the 64 digits in lower case, or the 40 digits
\* in lower case followed by 24 zeros; normalizing a result again gives the
\* same result; every other string gives an error.
C27_NormalizeExact ==
    IsSome(anchor.normalized) =>
        LET res == Unwrap(anchor.normalized) IN
        /\ res.tag = "Ok" <=> (HexOnly /\ Len(Trimmed) \in {40, 64})
        /\ res.tag \in {"Ok", "Err"}
        /\ res.tag = "Ok" =>
              /\ Len(res.value) = 64
              /\ \A i \in 1..64 :
                    res.value[i] \in Digits \cup {"a", "b", "c", "d", "e", "f"}
              /\ res.value = IF Len(Trimmed) = 64 THEN ToLowercase(Trimmed)
                             ELSE ToLowercase(Trimmed) \o Repeat("0", 24)
              /\ IsSome(anchor.renormalized) => Unwrap(anchor.renormalized) = res

C27_Witness ==
    /\ IsSome(anchor.renormalized)
    /\ Len(Trimmed) = 40
    /\ Trimmed[1] = "F"
    /\ Unwrap(anchor.normalized).value = <<"f">> \o Repeat("9", 39) \o Repeat("0", 24)

----------------------------------------------------------------------------
(* The shortlog command: execute_to, get_commits_for_shortlog and          *)
(* passes_filter                                                           *)

(* Timestamps.  A commit's timestamp is a usize and the bounds of the     *)
(* dates are i64.  A number is written offset * 2^63 + low with            *)
(* 0 <= low < 2^63: a usize has offset 0 or 1, an i64 has offset -1 or 0.  *)
Wide(offset, low) == [offset |-> offset, low |-> low]

\* a < b for two such numbers
WideLess(a, b) == a.offset < b.offset \/ (a.offset = b.offset /\ a.low < b.low)

\* `timestamp as i64`: the usize reinterpreted in two's complement, so that
\* 2^63 + low becomes low - 2^63
AsI64(t) == IF t.offset = 1 THEN Wide(0 - 1, t.low) ELSE t

\* git_internal's Signature and Commit, the fields the command reads
Signature(name, email, timestamp) == [name |-> name, email |-> email, timestamp |-> timestamp]
Commit(author, committer, message) ==
    [author |-> author, committer |-> committer, message |-> message]

\* struct ShortlogArgs, since and until with the result of parse_date
ShortlogArgs(numbered, summary, email, since, until) ==
    [numbered |-> numbered, summary |-> summary, email |-> email,
     since |-> since, until |-> until]

\* passes_filter
PassesFilter(commit, since_ts, until_ts) ==
    LET commit_ts == AsI64(commit.committer.timestamp) IN
    IF IsSome(since_ts) /\ WideLess(commit_ts, Unwrap(since_ts)) THEN FALSE
    ELSE IF IsSome(until_ts) /\ WideLess(Unwrap(until_ts), commit_ts) THEN FALSE
    ELSE TRUE

\* .filter(|c| passes_filter(c, since_ts, until_ts)).collect()
RECURSIVE FilterCommits(_, _, _)
FilterCommits(commits, since_ts, until_ts) ==
    IF Len(commits) = 0 THEN <<>>
    ELSE (IF PassesFilter(Head(commits), since_ts, until_ts) THEN <<Head(commits)>> ELSE <<>>)
         \o FilterCommits(Tail(commits), since_ts, until_ts)

\* the place of a commit in a list sorted by
\* |a, b| b.author.timestamp.cmp(&a.author.timestamp): before the first commit
\* with an older author timestamp (the sort is stable)
RECURSIVE InsertCommit(_, _)
InsertCommit(sorted, c) ==
    IF Len(sorted) = 0 THEN <<c>>
    ELSE IF WideLess(Head(sorted).author.timestamp, c.author.timestamp)
         THEN <<c>> \o sorted
         ELSE <<Head(sorted)>> \o InsertCommit(Tail(sorted), c)

\* commits.sort_by(|a, b| b.author.timestamp.cmp(&a.author.timestamp))
RECURSIVE SortCommits(_)
SortCommits(commits) ==
    IF Len(commits) = 0 THEN <<>>
    ELSE InsertCommit(SortCommits(SubSeq(commits, 1, Len(commits) - 1)), commits[Len(commits)])

\* the order of the characters of the author names by code point
CodePoints == UpperCaseLetters \o LowerCaseLetters
CodePoint(c) == CHOOSE i \in 1..Len(CodePoints) : CodePoints[i] = c

\* a < b for two strings: String::cmp(a, b) == Ordering::Less
RECURSIVE StrLess(_, _)
StrLess(a, b) ==
    IF Len(b) = 0 THEN FALSE
    ELSE IF Len(a) = 0 THEN TRUE
    ELSE IF Head(a) # Head(b) THEN CodePoint(Head(a)) < CodePoint(Head(b))
    ELSE StrLess(Tail(a), Tail(b))

\* struct AuthorStats
AuthorStats(name, email, count, subjects) ==
    [name |-> name, email |-> email, count |-> count, subjects |-> subjects]

\* the key of a commit in author_map
AuthorKey(commit, email) ==
    IF email THEN commit.author.name \o <<" ", "<">> \o commit.author.email \o <<">">>
    ELSE commit.author.name

\* commit.message.trim().lines().next().unwrap_or("")
Subject(commit) ==
    LET lines == Lines(Trim(commit.message)) IN
    IF Len(lines) = 0 THEN EmptyStr ELSE lines[1]

\* author_map.entry(key).or_insert_with(..).add_commit(subject), for every commit
RECURSIVE Aggregate(_, _, _)
Aggregate(author_map, commits, email) ==
    IF Len(commits) = 0 THEN author_map
    ELSE LET commit == Head(commits)
             key == AuthorKey(commit, email)
             stats == IF key \in DOMAIN author_map THEN author_map[key]
                      ELSE AuthorStats(commit.author.name, commit.author.email, 0, <<>>)
             added == AuthorStats(stats.name, stats.email, stats.count + 1,
                                  Append(stats.subjects, Subject(commit)))
         IN  Aggregate([k \in DOMAIN author_map \cup {key} |->
                           IF k = key THEN added ELSE author_map[k]],
                       Tail(commits), email)

\* the orders in which author_map.iter() may give the entries of a HashMap
IterationOrders(author_map) ==
    {order \in [1..Cardinality(DOMAIN author_map) -> DOMAIN author_map] :
        Range(order) = DOMAIN author_map}

\* the comparison of the two sort_by calls gives Ordering::Less
AuthorLess(a, b, numbered) ==
    IF numbered
    THEN \/ b.count < a.count
         \/ b.count = a.count /\ StrLess(ToLowercase(a.name), ToLowercase(b.name))
    ELSE StrLess(ToLowercase(a.name), ToLowercase(b.name))

\* the place of an entry in a sorted list: before the first entry it is less
\* than (the sort is stable)
RECURSIVE InsertAuthor(_, _, _)
InsertAuthor(sorted, x, numbered) ==
    IF Len(sorted) = 0 THEN <<x>>
    ELSE IF AuthorLess(x, Head(sorted), numbered) THEN <<x>> \o sorted
    ELSE <<Head(sorted)>> \o InsertAuthor(Tail(sorted), x, numbered)

\* authors.sort_by(..)
RECURSIVE SortAuthors(_, _)
SortAuthors(authors, numbered) ==
    IF Len(authors) = 0 THEN <<>>
    ELSE InsertAuthor(SortAuthors(SubSeq(authors, 1, Len(authors) - 1), numbered),
                      authors[Len(authors)], numbered)

\* usize::to_string
RECURSIVE DecimalString(_)
DecimalString(n) ==
    LET digit == <<"0", "1", "2", "3", "4", "5", "6", "7", "8", "9">>[(n % 10) + 1] IN
    IF n < 10 THEN <<digit>> ELSE Append(DecimalString(n \div 10), digit)

\* authors.iter().map(|(_, stats)| stats.count).max().unwrap_or(0)
RECURSIVE MaxCount(_)
MaxCount(authors) ==
    IF Len(authors) = 0 THEN 0
    ELSE LET rest == MaxCount(Tail(authors)) IN
         IF Head(authors).count > rest THEN Head(authors).count ELSE rest

\* std::cmp::max(4, max_count.to_string().len())
ColumnWidth(authors) ==
    LET digits == Len(DecimalString(MaxCount(authors))) IN
    IF digits > 4 THEN digits ELSE 4

\* "{:>width$}": the text after the spaces that fill the width
PadLeft(text, width) ==
    IF Len(text) >= width THEN text ELSE [i \in 1..(width - Len(text)) |-> " "] \o text

\* the lines written for one author
AuthorLines(stats, width, args) ==
    <<PadLeft(DecimalString(stats.count), width) \o <<" ", " ">> \o stats.name
        \o (IF args.email THEN <<" ", "<">> \o stats.email \o <<">">> ELSE <<>>)>>
    \o (IF args.summary THEN <<>>
        ELSE [i \in 1..Len(stats.subjects) |->
                 <<" ", " ", " ", " ", " ", " ">> \o stats.subjects[i]])

\* the lines written for the authors
WriteReport(authors, args) ==
    Concat([i \in 1..Len(authors) |-> AuthorLines(authors[i], ColumnWidth(authors), args)])

\* the authors of execute_to, in the order of the report, when author_map
\* gives its entries in the given order
SortedAuthors(author_map, order, args) ==
    SortAuthors([i \in 1..Len(order) |-> author_map[order[i]]], args.numbered)

(* The repositories and the arguments *)

\* the number of commits reachable from HEAD
MaxCommits == 3

\* a timestamp of 2^63 + low seconds
Beyond(low) == Wide(1, low)
\* a date or a timestamp of low seconds
At(low) == Wide(0, low)

CommitPool ==
    {Commit(Signature(<<"A", "l">>, <<"a">>, At(1)), Signature(<<"A", "l">>, <<"a">>, At(2)),
            <<"x", "\n">>),
     Commit(Signature(<<"a", "l">>, <<"a">>, At(3)), Signature(<<"a", "l">>, <<"a">>, At(1)),
            <<"y", "\n", "z">>),
     Commit(Signature(<<"A", "l">>, <<"b">>, At(2)), Signature(<<"A", "l">>, <<"b">>, At(3)),
            <<"w">>),
     Commit(Signature(<<"B", "o">>, <<"a">>, At(2)), Signature(<<"B", "o">>, <<"a">>, Beyond(2)),
            <<"v">>),
     Commit(Signature(<<"B", "o">>, <<"a">>, At(1)), Signature(<<"B", "o">>, <<"a">>, At(2)),
            <<"u">>)}

\* get_reachable_commits(commit_hash, None): commits, each once
ReachableCommits ==
    UNION {{commits \in [1..n -> CommitPool] :
               \A i, j \in 1..n : commits[i] = commits[j] => i = j} : n \in 0..MaxCommits}

\* what parse_date gives for --since and --until
DateResults == {None, Some(Ok(At(2))), Some(Err("String", "invalid date", <<>>))}

ArgsPool ==
    {ShortlogArgs(numbered, summary, email, since, until) :
        numbered \in BOOLEAN, summary \in BOOLEAN, email \in BOOLEAN,
        since \in DateResults, until \in DateResults}

\* a date that parse_date rejects
InvalidDate(date) == IsSome(date) /\ Unwrap(date).tag = "Err"

\* the timestamp of a date, if one is given
DateTimestamp(date) == IF IsSome(date) THEN Some(Unwrap(date).value) ELSE None

\* execute_to, lines 111-133: eprintln and return for a date that does not parse
RejectDate ==
    /\ shortlog.pc = "Start"
    /\ InvalidDate(shortlog.args.since) \/ InvalidDate(shortlog.args.until)
    /\ shortlog' = [shortlog EXCEPT !.pc = "Done"]
    /\ UNCHANGED <<loop_vars, profile_vars, adapter_vars, util_vars, concurrent_vars>>

\* get_commits_for_shortlog(&args, since_ts, until_ts).await
GetCommitsForShortlog ==
    /\ shortlog.pc = "Start"
    /\ ~InvalidDate(shortlog.args.since)
    /\ ~InvalidDate(shortlog.args.until)
    /\ shortlog' = [shortlog EXCEPT
           !.pc = "Collected",
           !.included = SortCommits(FilterCommits(shortlog.commits,
                                                  DateTimestamp(shortlog.args.since),
                                                  DateTimestamp(shortlog.args.until)))]
    /\ UNCHANGED <<loop_vars, profile_vars, adapter_vars, util_vars, concurrent_vars>>

\* execute_to, lines 137-213: group, collect the entries of the map, sort, write
WriteShortlog ==
    /\ shortlog.pc = "Collected"
    /\ LET author_map == Aggregate(<<>>, shortlog.included, shortlog.args.email) IN
       \E order \in IterationOrders(author_map) :
          LET authors == SortedAuthors(author_map, order, shortlog.args) IN
          shortlog' = [shortlog EXCEPT
              !.pc = "Done",
              !.written = TRUE,
              !.authors = authors,
              !.report = WriteReport(authors, shortlog.args)]
    /\ UNCHANGED <<loop_vars, profile_vars, adapter_vars, util_vars, concurrent_vars>>

ShortlogInit ==
    /\ shortlog \in [commits : ReachableCommits, args : ArgsPool, pc : {"Start"},
                     included : {<<>>}, written : {FALSE}, authors : {<<>>}, report : {<<>>}]
    /\ LoopIdle
    /\ ProfileIdle
    /\ NodeIdle
    /\ AnchorIdle
    /\ InvocationsIdle

ShortlogNext == RejectDate \/ GetCommitsForShortlog \/ WriteShortlog

SpecShortlog == ShortlogInit /\ [][ShortlogNext]_vars

(* Observations of the command *)

\* the report was written
Reported == shortlog.pc = "Done" /\ shortlog.written

\* the reports the command can write for the commits and the arguments
PossibleReports ==
    LET author_map == Aggregate(<<>>, shortlog.included, shortlog.args.email) IN
    {WriteReport(SortedAuthors(author_map, order, shortlog.args), shortlog.args) :
        order \in IterationOrders(author_map)}

\* the author entries are in the order of the key
OrderedByKey ==
    \A i, j \in 1..Len(shortlog.authors) :
        i < j => ~AuthorLess(shortlog.authors[j], shortlog.authors[i], shortlog.args.numbered)

\* two entries of the report compare equal under the key
EqualKeys ==
    \E i, j \in 1..Len(shortlog.authors) :
        /\ i < j
        /\ ~AuthorLess(shortlog.authors[i], shortlog.authors[j], shortlog.args.numbered)
        /\ ~AuthorLess(shortlog.authors[j], shortlog.authors[i], shortlog.args.numbered)

\* since <= t and t <= until for the bounds given, t the number of seconds
WithinDates(t) ==
    /\ IsSome(shortlog.args.since) => ~WideLess(t, Unwrap(shortlog.args.since).value)
    /\ IsSome(shortlog.args.until) => ~WideLess(Unwrap(shortlog.args.until).value, t)

RECURSIVE SumCounts(_)
SumCounts(authors) ==
    IF Len(authors) = 0 THEN 0 ELSE Head(authors).count + SumCounts(Tail(authors))

----------------------------------------------------------------------------
(* C28, C29: the shortlog report *)

\* C28: the order of the author entries of the report is fixed by the commits
\* and the flags: the entries are in the order of the key (the name without
\* regard to case; with -n the descending count, then the name), and the
\* command can write one report only, also when two entries compare equal
\* under the key.
C28_ReportDeterministic ==
    Reported => (OrderedByKey /\ PossibleReports = {shortlog.report})

\* C29: a commit is in the report exactly when its committer timestamp t has
\* since <= t, if --since is given, and t <= until, if --until is given; the
\* counts of the report sum to the number of these commits.
C29_CommitterTimeFilter ==
    /\ shortlog.pc \in {"Collected", "Done"} /\ (shortlog.pc = "Done" => shortlog.written) =>
          \A i \in 1..Len(shortlog.commits) :
              shortlog.commits[i] \in Range(shortlog.included)
                  <=> WithinDates(shortlog.commits[i].committer.timestamp)
    /\ Reported =>
          SumCounts(shortlog.authors) =
              Cardinality({i \in 1..Len(shortlog.commits) :
                              WithinDates(shortlog.commits[i].committer.timestamp)})

----------------------------------------------------------------------------
(* Concurrent invocations of one Agent: run_with_history called several    *)
(* times on the same &self, the calls suspended at                         *)
(* self.model.completion(request).await                                    *)

\* the number of invocations that run at the same time
MaxTasks == 2

Tasks == 1..MaxTasks

\* the text of the prompt of an invocation
TaskPrompt(i) == Str(LowerCaseLetters[15 + i])

PromptTexts == {TaskPrompt(i) : i \in Tasks}

\* struct Agent: the fields run_with_history reads
Agent(limit, tools) ==
    [max_steps |-> limit, tools |-> tools, preamble |-> None, temperature |-> None]

(* A backend whose answer depends on the request only: for a prompt it    *)
(* asks for the tool in the first rounds of the conversation and then     *)
(* gives its final answer.                                                *)
Script(rounds, tool, final) == [rounds |-> rounds, tool |-> tool, final |-> final]

Scripts ==
    {Script(0, "mock_tool", "text"), Script(1, "mock_tool", "text"),
     Script(2, "mock_tool", "text"), Script(1, "failing_tool", "text"),
     Script(0, "mock_tool", "error"), Script(1, "Mock_tool", "text")}

\* the registries of the agent: tools of different names, and two tools of one
\* name of which the first or the second fails
ToolSets ==
    {<<MockTool, FailingTool>>, <<MockTool, Tool("mock_tool", FALSE)>>,
     <<Tool("mock_tool", FALSE), MockTool>>}

\* CompletionModel::completion(request) of such a backend
Respond(model, req) ==
    LET prompt_text == req.chat_history[1].content[1].text
        script == model[prompt_text]
        round == Len(SelectSeq(req.chat_history, LAMBDA m : m.role = "Assistant"))
    IN  IF round < script.rounds
        THEN Ok(<<ToolCall(round + 1, script.tool, prompt_text)>>)
        ELSE IF script.final = "text" THEN Ok(<<Text(prompt_text)>>)
        ELSE BackendError

\* the CompletionRequest of lines 73-79 for a history
RequestOf(agent, history) ==
    [preamble |-> agent.preamble,
     chat_history |-> history,
     temperature |-> agent.temperature,
     tools |-> [i \in 1..Len(agent.tools) |-> Definition(agent.tools[i])]]

\* lines 134-160: the tool calls of a round, executed in order without
\* suspension (Tool::call is not async)
RECURSIVE ExecuteCalls(_, _, _)
ExecuteCalls(tools, calls, res) ==
    IF Len(calls) = 0 THEN Ok(res)
    ELSE LET tc == Head(calls)
             i == FindTool(tools, tc.function.name)
         IN  IF i = 0 THEN Err("RequestError", "tool not found", tc.function.name)
             ELSE LET result == Call(tools[i], tc.function.arguments) IN
                  IF result.tag = "Err" THEN Err("RequestError", "tool call failed", result)
                  ELSE ExecuteCalls(tools, Tail(calls), PushResult(res, tc, result.value))

\* the local state of one call of run_with_history
Task(history) ==
    [chat_history |-> history, steps |-> 0, pc |-> "Created", requests |-> <<>>,
     outcome |-> None]

\* return of run_with_history
Return(task, res) == [task EXCEPT !.pc = "Done", !.outcome = Some(res)]

\* lines 73-81: the request is built and sent, the call is suspended
SendRequest(agent, task) ==
    [task EXCEPT !.pc = "Awaiting",
                 !.requests = Append(task.requests, RequestOf(agent, task.chat_history))]

\* the step counter of invocation i, were it one counter for all invocations
\* of the agent
StepsShared(tasks, i) ==
    LET RECURSIVE Sum(_)
        Sum(n) == IF n = 0 THEN 0 ELSE tasks[n].steps + Sum(n - 1)
    IN  Sum(Len(tasks))

\* line 71: let mut steps = 0usize, a local of the call
StepsOf(tasks, i) == tasks[i].steps

\* lines 81-171: the call resumes with the backend's answer and runs up to
\* its return or to its next request
Resume(agent, task, steps_now, answer) ==
    IF answer.tag = "Err" THEN Return(task, answer)
    ELSE LET content == answer.value
             calls == ToolCallsOf(content)
         IN
         IF Len(calls) = 0 THEN Return(task, FinalAnswer(content))
         ELSE LET counted == [task EXCEPT !.steps = NextSteps(steps_now, calls)]
                  assistant_content == AssistantContent(content)
              IN
              IF ExceedsLimit(counted.steps, agent.max_steps)
              THEN Return(counted, Err("ResponseError", "exceeded max steps",
                                       Unwrap(agent.max_steps)))
              ELSE IF ~IsSome(assistant_content)
              THEN Return(counted, Err("ResponseError", "empty assistant content", 0))
              ELSE LET answered ==
                           [counted EXCEPT !.chat_history =
                               Append(task.chat_history,
                                      AssistantMessage(Unwrap(assistant_content)))]
                       res == ExecuteCalls(agent.tools, calls, <<>>)
                   IN
                   IF res.tag = "Err" THEN Return(answered, res)
                   ELSE LET tool_result_content == OneOrManyMany(res.value) IN
                        IF ~IsSome(tool_result_content)
                        THEN Return(answered, Err("ResponseError", "empty tool results", 0))
                        ELSE SendRequest(agent,
                                 [answered EXCEPT !.chat_history =
                                     Append(answered.chat_history,
                                            UserMessage(Unwrap(tool_result_content)))])

\* run_with_history run from a state of the call to its return, no other call
\* running
RECURSIVE RunWithHistory(_, _, _)
RunWithHistory(agent, model, task) ==
    IF task.pc = "Done" THEN task
    ELSE IF task.pc = "Created" THEN RunWithHistory(agent, model, SendRequest(agent, task))
    ELSE RunWithHistory(agent, model,
                        Resume(agent, task, task.steps,
                               Respond(model, task.requests[Len(task.requests)])))

\* another invocation is suspended at its backend call
OthersSuspended(i) == \E j \in Tasks \ {i} : invocations.tasks[j].pc = "Awaiting"

\* invocation i is called and runs up to its first backend call
TaskStart(i) ==
    /\ invocations.tasks[i].pc = "Created"
    /\ invocations' = [invocations EXCEPT
           !.tasks[i] = SendRequest(invocations.agent, invocations.tasks[i]),
           !.overlapped = invocations.overlapped \/ OthersSuspended(i)]
    /\ UNCHANGED <<loop_vars, profile_vars, adapter_vars, util_vars, shortlog_vars>>

\* the backend answers invocation i, which runs up to its return or to its
\* next backend call
TaskResume(i) ==
    /\ invocations.tasks[i].pc = "Awaiting"
    /\ LET task == invocations.tasks[i] IN
       invocations' = [invocations EXCEPT
           !.tasks[i] = Resume(invocations.agent, task, StepsOf(invocations.tasks, i),
                               Respond(invocations.model, task.requests[Len(task.requests)])),
           !.overlapped = invocations.overlapped \/ OthersSuspended(i)]
    /\ UNCHANGED <<loop_vars, profile_vars, adapter_vars, util_vars, shortlog_vars>>

ConcurrentInit ==
    /\ invocations \in
          [agent : {Agent(limit, tools) : limit \in StepBounds, tools \in ToolSets},
           model : [PromptTexts -> Scripts],
           tasks : {[i \in Tasks |-> Task(<<UserMessage(<<Text(TaskPrompt(i))>>)>>)]},
           overlapped : {FALSE}]
    /\ LoopIdle
    /\ ProfileIdle
    /\ NodeIdle
    /\ AnchorIdle
    /\ ShortlogIdle

ConcurrentNext == \E i \in Tasks : TaskStart(i) \/ TaskResume(i)

SpecConcurrent == ConcurrentInit /\ [][ConcurrentNext]_vars

(* Observations of the invocations *)

\* invocation i run alone from its call to its return
Alone(i) ==
    RunWithHistory(invocations.agent, invocations.model,
                   Task(<<UserMessage(<<Text(TaskPrompt(i))>>)>>))

\* the prompt texts that occur in a message: in its texts, in the arguments of
\* its tool calls and in its tool results
TextsIn(message) ==
    {message.content[k].text :
        k \in {n \in 1..Len(message.content) : message.content[n].kind = "Text"}}
    \cup {message.content[k].function.arguments :
        k \in {n \in 1..Len(message.content) : message.content[n].kind = "ToolCall"}}
    \cup {message.content[k].result.args :
        k \in {n \in 1..Len(message.content) : message.content[n].kind = "ToolResult"}}

----------------------------------------------------------------------------
(* C24: concurrent invocations do not interfere *)

\* C24: of invocations of one agent that run interleaved at their backend
\* calls, with a backend whose answer depends on the request only, each sends
\* the requests it sends when it runs alone, in the same order, and has the
\* same step count, history and result at its return; between its requests
\* its history is the one of its last request; and every message of its
\* history carries its own prompt and no other invocation's.
C24_NoInterference ==
    \A i \in Tasks :
        LET task == invocations.tasks[i]
            alone == Alone(i)
            sent == Len(task.requests)
        IN
        /\ IsPrefix(task.requests, alone.requests)
        /\ task.steps <= alone.steps
        /\ task.pc = "Done" =>
              /\ task.requests = alone.requests
              /\ task.steps = alone.steps
              /\ task.chat_history = alone.chat_history
              /\ task.outcome = alone.outcome
        /\ task.pc = "Awaiting" =>
              /\ task.chat_history = alone.requests[sent].chat_history
              /\ task.steps = sent - 1
        /\ \A k \in 1..Len(task.chat_history) :
              TextsIn(task.chat_history[k]) = {TaskPrompt(i)}

C24_Witness ==
    /\ invocations.overlapped
    /\ \A i \in Tasks :
          /\ invocations.tasks[i].pc = "Done"
          /\ invocations.tasks[i].outcome = Some(Ok(TaskPrompt(i)))
    /\ invocations.tasks[1].steps = 2
    /\ invocations.tasks[2].steps = 1

----------------------------------------------------------------------------
(* C31: tool lookup *)

\* the places in the registry of the tools whose name is exactly n
NamedExactly(n) ==
    {k \in 1..Len(invocations.agent.tools) : invocations.agent.tools[k].name = n}

\* the tool of that name registered first
FirstNamed(n) ==
    invocations.agent.tools[CHOOSE k \in NamedExactly(n) : \A j \in NamedExactly(n) : k <= j]

\* the tool results in the history of an invocation
ToolResultsOf(task) ==
    UNION {Range(task.chat_history[k].content) :
              k \in {n \in 1..Len(task.chat_history) :
                        /\ task.chat_history[n].role = "User"
                        /\ task.chat_history[n].content[1].kind = "ToolResult"}}

\* invocation i has returned from a run in which the backend asked for a tool
\* within the step bound
CalledTool(i) ==
    /\ invocations.tasks[i].pc = "Done"
    /\ invocations.model[TaskPrompt(i)].rounds >= 1
    /\ invocations.agent.max_steps # Some(0)

\* C31: a tool call is served by the tool whose name equals the name called,
\* character for character, and a call of a name no tool has fails; of several
\* tools of one name the first registered serves every call: the run fails
\* with that tool's error when the first fails, and holds that tool's results,
\* and no failure of a tool, when the first succeeds, whatever the later tools
\* of the name would do.
C31_FirstRegisteredToolRuns ==
    \A i \in Tasks :
        CalledTool(i) =>
            LET task == invocations.tasks[i]
                n == invocations.model[TaskPrompt(i)].tool
                res == Unwrap(task.outcome)
            IN
            IF NamedExactly(n) = {}
            THEN res = Err("RequestError", "tool not found", n) /\ ToolResultsOf(task) = {}
            ELSE IF FirstNamed(n).succeeds
            THEN /\ ~(res.tag = "Err" /\ res.kind = "RequestError")
                 /\ ToolResultsOf(task) # {}
                 /\ \A tr \in ToolResultsOf(task) :
                       /\ tr.name = n
                       /\ tr.result = [ok |-> TRUE, tool |-> n, args |-> TaskPrompt(i)]
            ELSE /\ res = Err("RequestError", "tool call failed",
                              Err("Tool", "tool failed", n))
                 /\ ToolResultsOf(task) = {}

C31_Witness ==
    /\ CalledTool(1)
    /\ CalledTool(2)
    /\ invocations.agent.tools = <<MockTool, Tool("mock_tool", FALSE)>>
    /\ invocations.tasks[1].outcome = Some(Ok(TaskPrompt(1)))
    /\ invocations.tasks[1].steps = 2
    /\ invocations.tasks[2].outcome =
          Some(Err("RequestError", "tool not found", "Mock_tool"))

----------------------------------------------------------------------------
(* C32, C33: the fields of a parsed profile *)

\* a line of the frontmatter has the key
HasKey(line, key) == StartsWith(Trim(line), key \o <<":">>)

\* some line of the frontmatter has the key
KeyPresent(key) == \E i \in 1..Len(FrontmatterLines) : HasKey(FrontmatterLines[i], key)

\* the keys the parser knows
KnownKeys ==
    {<<"n", "a", "m", "e">>, <<"d", "e", "s", "c", "r", "i", "p", "t", "i", "o", "n">>,
     <<"m", "o", "d", "e", "l">>, <<"t", "o", "o", "l", "s">>}

\* the document without the frontmatter lines whose key the parser does not know
WithoutOtherKeys ==
    JoinLines(<<Fence>>
              \o SelectSeq(FrontmatterLines, LAMBDA line : \E key \in KnownKeys : HasKey(line, key))
              \o <<Fence>> \o SubSeq(DocLines, ClosingLine + 1, Len(DocLines)))

\* C32: a parsed profile has model preference "default" when no line of the
\* frontmatter has the key model, the empty description when none has the key
\* description, and no tools when none has the key tools; the lines with
\* other keys change nothing: the profile is that of the document without them.
C32_DefaultsAndUnknownKeys ==
    (Parsed /\ HasClosingFence) =>
        /\ IsSome(ParseResult)
        /\ LET profile == Unwrap(ParseResult) IN
           /\ ~KeyPresent(<<"m", "o", "d", "e", "l">>) =>
                 profile.model_preference = <<"d", "e", "f", "a", "u", "l", "t">>
           /\ ~KeyPresent(<<"d", "e", "s", "c", "r", "i", "p", "t", "i", "o", "n">>) =>
                 profile.description = <<>>
           /\ ~KeyPresent(<<"t", "o", "o", "l", "s">>) => profile.tools = <<>>
           /\ ParseResult = ParseAgentProfile(WithoutOtherKeys)

C32_Witness ==
    /\ Parsed
    /\ Len(FrontmatterLines) = 3
    /\ HasKey(FrontmatterLines[2], <<"c", "o", "l", "o", "r">>)
    /\ HasKey(FrontmatterLines[3], <<"d", "e", "s", "c", "r", "i", "p", "t", "i", "o", "n">>)
    /\ IsSome(ParseResult)
    /\ Unwrap(ParseResult).model_preference = <<"d", "e", "f", "a", "u", "l", "t">>
    /\ Unwrap(ParseResult).description = <<"d">>
    /\ Unwrap(ParseResult).tools = <<>>

\* the texts of the entries that are not empty, in order
RECURSIVE EntryTexts(_)
EntryTexts(entries) ==
    IF Len(entries) = 0 THEN <<>>
    ELSE LET e == Head(entries)
             text == IF Len(e) >= 2 /\ e[1] \in {"\"", "'"} THEN SubSeq(e, 2, Len(e) - 1) ELSE e
         IN  (IF Len(text) = 0 THEN <<>> ELSE <<text>>) \o EntryTexts(Tail(entries))

\* the document holds a tools line and nothing else after the name
OnlyToolsLine ==
    /\ HasClosingFence
    /\ Len(FrontmatterLines) = 2
    /\ HasKey(FrontmatterLines[2], <<"t", "o", "o", "l", "s">>)

\* C33: the tools of a profile whose tools value is a bracketed list of
\* entries separated by commas, each between double quotes, between single
\* quotes or without quotes, with or without blank space around it, are the
\* texts of the entries in order, the empty ones left out; and whatever the
\* tools value is, the document is parsed to a profile.
C33_ToolsList ==
    (Parsed /\ OnlyToolsLine) =>
        /\ IsSome(ParseResult)
        /\ \A entries \in SeqsUpTo(Entries, MaxEntries), pad \in {<<>>, <<" ">>} :
              document = FieldDocument(<<ToolsLine(ListValue(entries, pad))>>) =>
                  Unwrap(ParseResult).tools = EntryTexts(entries)

C33_Witness ==
    /\ Parsed
    /\ document = FieldDocument(<<ToolsLine(ListValue(<<Entry(<<"'">>, <<"b", "c">>),
                                                        Entry(<<"\"">>, <<>>)>>, <<" ">>))>>)
    /\ Unwrap(ParseResult).tools = <<<<"b", "c">>>>

----------------------------------------------------------------------------
(* C34: the keywords of a profile *)

\* the pieces of a text in lower case between the characters that are neither
\* letters nor digits
Tokens(description) ==
    Range(Split(ToLowercase(description),
                {c \in Chars : c \notin Range(LowerCaseLetters) \cup Range(UpperCaseLetters)
                                          \cup Digits \cup NonAsciiLetters}))

\* the tokens of more than 2 characters that are no stop words
LongTokens(description) == {w \in Tokens(description) : Len(w) > 2 /\ w \notin StopWords}

\* C34: the keywords of a profile are the tokens of its description, in lower
\* case and cut at every character that is neither letter nor digit, that
\* have more than 2 characters and are no stop words; and select gives for an
\* input what it gives for the input in lower case.
C34_KeywordsAndCaseInsensitive ==
    Selected =>
        /\ \A i \in 1..Len(router_profiles) :
              Range(ExtractKeywords(router_profiles[i].description))
                  = LongTokens(router_profiles[i].description)
        /\ SelectProfile(router_profiles, ToLowercase(router_input)) = Selection

----------------------------------------------------------------------------
(* C35, C40: files that fail, and names declared twice *)

\* a file the loader tries to read and that fails: an .md entry of at most
\* 1 MiB whose text cannot be read or is no profile
FailsToLoad(file) ==
    /\ file.ext = "md"
    /\ file.metadata_ok
    /\ file.len <= 1048576
    /\ ~file.readable \/ ~IsSome(ParseAgentProfile(file.content))

\* some file of the directories fails to load
SomeFileFails ==
    \E dir \in {project_dir, user_dir} : \E f \in Range(EntriesOf(dir)) : FailsToLoad(f)

\* the tier that is to hold a name: the highest one that provides it
TierOf(n) ==
    IF n \in ProvidedNames(project_dir) THEN 1
    ELSE IF n \in ProvidedNames(user_dir) THEN 2
    ELSE 3

\* C35: files that cannot be read or parsed neither stop the loading nor claim
\* a name: the names loaded are those the readable, parsable files of the two
\* directories and the embedded defaults provide, each held by one profile of
\* the highest tier that provides it, and no profile comes from the text of a
\* file that cannot be read.
C35_FailedFilesSkipped ==
    Loaded =>
        /\ loaded_names = ProvidedNames(project_dir) \cup ProvidedNames(user_dir)
                              \cup EmbeddedNames
        /\ \A n \in loaded_names :
              \E i \in 1..Len(profiles) :
                  /\ profiles[i].name = n
                  /\ Tier(profiles[i]) = TierOf(n)
        /\ \A dir \in {project_dir, user_dir} : \A f \in Range(EntriesOf(dir)) :
              (FailsToLoad(f) /\ IsSome(ParseAgentProfile(f.content))) =>
                  \A i \in 1..Len(profiles) : profiles[i] # ProfileIn(f)

C35_Witness ==
    /\ Loaded
    /\ Len(EntriesOf(project_dir)) = 2
    /\ FailsToLoad(EntriesOf(project_dir)[1])
    /\ StartsWith(EntriesOf(project_dir)[1].content,
                  Fence \o <<"\n", "n", "a", "m", "e", ":", " ", "p", "l", "a", "n", "n", "e", "r">>)
    /\ Len(profiles) = 5
    /\ profiles[1].system_prompt = <<"P", "2">>
    /\ \E i \in 2..5 : /\ profiles[i].name = <<"p", "l", "a", "n", "n", "e", "r">>
                       /\ profiles[i].system_prompt = <<"E", "1">>

\* a name is declared by two profile files of one directory
DeclaredTwice(dir, n) ==
    \E i, j \in 1..Len(EntriesOf(dir)) :
        /\ i < j
        /\ IsProfileFile(EntriesOf(dir)[i])
        /\ IsProfileFile(EntriesOf(dir)[j])
        /\ EntriesOf(dir)[i].len <= 1048576
        /\ EntriesOf(dir)[j].len <= 1048576
        /\ ProfileIn(EntriesOf(dir)[i]).name = n
        /\ ProfileIn(EntriesOf(dir)[j]).name = n

\* C40: the list of load_profiles never holds two profiles of one name,
\* whatever the two directories hold; of the files of one directory that
\* declare the same name exactly one gives its profile to the list.
C40_NamesDistinct ==
    /\ \A n \in {profiles[i].name : i \in 1..Len(profiles)} : CountNamed(n) = 1
    /\ loaded_names = {profiles[i].name : i \in 1..Len(profiles)}
    /\ Loaded =>
          \A dir \in {project_dir, user_dir} : \A n \in ProvidedNames(dir) :
              Cardinality({f \in Range(EntriesOf(dir)) :
                              /\ IsProfileFile(f)
                              /\ ProfileIn(f).name = n
                              /\ \E i \in 1..Len(profiles) : profiles[i] = ProfileIn(f)}) <= 1

C40_Witness ==
    /\ Loaded
    /\ DeclaredTwice(project_dir, <<"c", "u", "s", "t", "o", "m">>)
    /\ CountNamed(<<"c", "u", "s", "t", "o", "m">>) = 1
    /\ Len(profiles) = 5

----------------------------------------------------------------------------
(* C36: a failing receive *)

\* the loop over the senders is at a sender whose channel is closed
AtClosedSender ==
    /\ Len(node.received) < Len(node.ids)
    /\ node.in_channels[NextSender(node)].state = "Closed"

\* the run has left the receiving loop at a closed channel
RecvFailed == node.pc # "Receiving" /\ AtClosedSender

\* the state of a run that ended at the failing receive from sender i of the
\* reported order
FailedAt(i) ==
    /\ NodeDone
    /\ Len(node.received) = i - 1
    /\ IsSome(node.output)
    /\ Unwrap(node.output).tag = "Err"
    /\ node.calls = 0
    /\ ~Invoked
    /\ ~IsSome(node.agent_result)
    /\ node.out_channels = <<>>
    /\ \A j \in (i + 1)..Len(node.ids) : node.in_channels[node.ids[j]].state # "Taken"

\* C36: when the receive from an upstream sender fails the node reports Err
\* in that very step: the senders later in the reported order are not read,
\* the agent or loop is not called and nothing is broadcast; a channel the
\* loop has passed is never left closed.
C36_RecvFailureEndsRun ==
    /\ [](RecvFailed => FailedAt(Len(node.received) + 1))
    /\ [](\A i \in 1..Len(node.received) : node.in_channels[node.ids[i]].state = "Taken")
    /\ [][(/\ node.pc = "Receiving"
           /\ AtClosedSender
           /\ node.in_channels' = node.in_channels)
          => (/\ node.pc' = "Done"
              /\ node.received' = node.received
              /\ node.output' = Some(OutputErr(<<"recv", NextSender(node)>>))
              /\ node.calls' = 0
              /\ node.out_channels' = <<>>)]_vars

C36_Witness ==
    /\ NodeDone
    /\ node.ids = <<1, 2>>
    /\ node.in_channels[1].state = "Closed"
    /\ node.in_channels[2].state = "Full"
    /\ node.output = Some(OutputErr(<<"recv", 1>>))
    /\ node.calls = 0
    /\ node.out_channels = <<>>

----------------------------------------------------------------------------
(* C37: the shape of the history *)

\* the message is the tool-result message of a round
IsResultsMessage(m) ==
    /\ m.role = "User"
    /\ \A k \in 1..Len(m.content) : m.content[k].kind = "ToolResult"

\* the history after r completed rounds
HistoryShape ==
    /\ IsPrefix(seed, chat_history)
    /\ \A r \in 1..steps :
          /\ AssistantIndex(r) <= Len(chat_history) =>
                chat_history[AssistantIndex(r)].role = "Assistant"
          /\ ResultsIndex(r) <= Len(chat_history) =>
                IsResultsMessage(chat_history[ResultsIndex(r)])
    /\ Len(chat_history) <= Len(seed) + 2 * steps
    /\ pc = "AwaitingCompletion" => Len(chat_history) = Len(seed) + 2 * steps
    /\ pc = "ExecutingTools" => Len(chat_history) = Len(seed) + 2 * steps - 1

\* the request of the last round: the history of the rounds completed before
\* it, and the agent's preamble, temperature and tool definitions
RequestShape ==
    completions >= 1 =>
        /\ Unwrap(request).chat_history =
              SubSeq(chat_history, 1, Len(seed) + 2 * (completions - 1))
        /\ Unwrap(request).preamble = preamble
        /\ Unwrap(request).temperature = temperature
        /\ Unwrap(request).tools =
              [i \in 1..Len(agent_tools) |-> Definition(agent_tools[i])]

\* C37: after r completed tool rounds the history is the seed followed by r
\* pairs of an Assistant message and a User message of tool results; a step
\* of the invocation only appends to the history; the request of each round
\* carries the history of the rounds before it with the agent's preamble,
\* temperature and tool definitions, which no step changes, so that they are
\* those of the request of round 1.
C37_HistoryGrowsByPairs ==
    /\ [](HistoryShape /\ RequestShape)
    /\ [][/\ pc # "Idle" => IsPrefix(chat_history, chat_history')
          /\ Len(chat_history') <= Len(chat_history) + 1 \/ pc = "Idle"
          /\ completions >= 1 =>
                /\ Unwrap(request').preamble = Unwrap(request).preamble
                /\ Unwrap(request').temperature = Unwrap(request).temperature
                /\ Unwrap(request').tools = Unwrap(request).tools]_vars

C37_Witness ==
    /\ op = "chat"
    /\ preamble = Some(Str("p"))
    /\ completions = 3
    /\ steps >= 2
    /\ Len(seed) = 3
    /\ Len(Unwrap(request).chat_history) = 7
    /\ Unwrap(request).chat_history[4].role = "Assistant"
    /\ IsResultsMessage(Unwrap(request).chat_history[5])
    /\ Unwrap(request).chat_history[6].role = "Assistant"
    /\ IsResultsMessage(Unwrap(request).chat_history[7])
    /\ Unwrap(request).preamble = Some(Str("p"))
    /\ Unwrap(request).temperature = Some(7)

----------------------------------------------------------------------------
(* C38: no empty message *)

\* the two errors of an empty content collection
EmptyContentErrors ==
    {Err("ResponseError", "empty assistant content", 0),
     Err("ResponseError", "empty tool results", 0)}

\* C38: every message of the history has at least one content item and the
\* invocation never returns the error of an empty Assistant content or of
\* empty tool results: the tools of a round are executed only for an answer
\* with at least one tool call, and when none is pending every call of the
\* answer has given one result.
C38_NoEmptyMessage ==
    /\ \A k \in 1..Len(chat_history) : Len(chat_history[k].content) >= 1
    /\ Returned => Result \notin EmptyContentErrors
    /\ pc = "ExecutingTools" =>
          /\ Len(ToolCallsOf(response)) >= 1
          /\ Len(response) >= 1
          /\ Len(results) + Len(tool_calls) = Len(ToolCallsOf(response))

C38_Witness ==
    /\ pc = "AwaitingCompletion"
    /\ completions = 1
    /\ steps = 1
    /\ Len(response) = 1
    /\ Len(chat_history[AssistantIndex(1)].content) = 1
    /\ Len(chat_history[ResultsIndex(1)].content) = 1
    /\ Len(chat_history) = Len(seed) + 2

----------------------------------------------------------------------------
(* C39: termination *)

\* Agent::new, line 59: max_steps: Some(4)
DEFAULT_MAX_STEPS == 4

\* Agent::new, lines 54-62: no preamble, no temperature, step bound 4 and the
\* empty tool set
AgentNew ==
    [max_steps |-> Some(DEFAULT_MAX_STEPS), tools |-> <<>>, preamble |-> None,
     temperature |-> None]

\* the agents whose invocations are followed to their end: the one built by
\* Agent::new, as it is and with tools put into its tool set, and agents with
\* every step bound of the model or none
BoundedInit ==
    /\ \E agent \in {AgentNew, [AgentNew EXCEPT !.tools = <<MockTool, FailingTool>>]}
                       \cup {Agent(limit, <<MockTool, FailingTool>>) : limit \in StepBounds} :
          /\ max_steps = agent.max_steps
          /\ agent_tools = agent.tools
          /\ preamble = agent.preamble
          /\ temperature = agent.temperature
    /\ op = "none"
    /\ seed = <<>>
    /\ chat_history = <<>>
    /\ steps = 0
    /\ pc = "Idle"
    /\ request = None
    /\ response = <<>>
    /\ tool_calls = <<>>
    /\ results = <<>>
    /\ outcome = None
    /\ completions = 0
    /\ executed = <<>>
    /\ backend_log = <<>>
    /\ ParserIdle
    /\ RouterIdle
    /\ LoaderIdle
    /\ AuxIdle

\* the answers of at most two content items: one of each kind, and every pair
ShortAnswers == {content \in ResponsePool : Len(content) <= 2}

\* the backend returns from completion: with an error or with an answer
BackendReturns == CompletionFails \/ \E content \in ShortAnswers : Completion(content)

BoundedNext ==
    \/ Prompt
    \/ \E prior \in PriorHistories : Chat(prior)
    \/ BackendReturns
    \/ ExecuteTool
    \/ AppendToolResults

\* the invocations with a backend and tools that always return: a call that
\* is awaited is answered, a pending tool call is executed
SpecBounded ==
    /\ BoundedInit
    /\ [][BoundedNext]_vars
    /\ WF_vars(BackendReturns)
    /\ WF_vars(ExecuteTool)
    /\ WF_vars(AppendToolResults)

\* the agent is the one Agent::new builds
BuiltByNew ==
    /\ max_steps = AgentNew.max_steps
    /\ preamble = AgentNew.preamble
    /\ temperature = AgentNew.temperature

\* the invocation has been called
Called == pc \notin {"Idle", "Off"}

\* every answer of the backend so far asked for tools that are registered and
\* succeed
KeepsCalling == \A i \in 1..Len(backend_log) : GoodToolRound(backend_log[i])

\* C39: with step bound N the backend is invoked at most N+1 times and at
\* most N rounds execute tools, whatever the backend answers, and with a
\* backend and tools that always return the invocation returns; the agent of
\* Agent::new has step bound 4, so at most 5 backend invocations; without a
\* step bound an invocation whose backend asks in every round for tools that
\* succeed never returns.
C39_BoundTerminates ==
    /\ [](IsSome(max_steps) =>
            /\ completions <= Unwrap(max_steps) + 1
            /\ Returned \/ steps <= Unwrap(max_steps))
    /\ [](BuiltByNew => max_steps = Some(4) /\ completions <= 5)
    /\ (Called /\ IsSome(max_steps)) ~> Returned
    /\ []((Called /\ max_steps = None /\ KeepsCalling) =>
            /\ ~Returned
            /\ pc \in {"AwaitingCompletion", "ExecutingTools"})

C39_Witness ==
    /\ BuiltByNew
    /\ Returned
    /\ completions = 5
    /\ steps = 5
    /\ Len(executed) >= 4
    /\ Result = StepBoundError(4)

\* without a step bound the loop has run every round the model follows
C39_UnboundedWitness ==
    /\ max_steps = None
    /\ KeepsCalling
    /\ completions = MaxCalls
    /\ steps = MaxCalls
    /\ pc = "AwaitingCompletion"
    /\ ~Returned

====
